---- MODULE Spec2Model ----
(***************************************************************************)
(* contenttruck: the partition quota ledger, the Upload / Delete and the    *)
(* DeletePartition handlers of the API server, path resolution and the     *)
(* validations, as state machines.                                         *)
(*                                                                         *)
(* Strings that the code inspects character by character (object paths)    *)
(* are sequences of one-character strings: "i/a" is <<"i", "/", "a">>.     *)
(***************************************************************************)
EXTENDS Integers, Sequences, FiniteSets, TLC

\* ------------------------------------------------------------------ bounds
\* Quota ceiling of the partition of the model.
MaxSize == 2
\* Largest Content-Length below 2^32 a request declares.
MaxLen == 1
\* Number of requests served during one behaviour.
MaxOps == 3

\* ------------------------------------------------------- integers of the code
\* Sizes (content lengths, usage, quota ceilings) are counted in KiB (1024
\* bytes), so that 2^32 bytes, the range of the code's uint32, is 2^22 KiB and
\* uint32(x) of a whole number of KiB is exact.
Pow32 == 4194304

\* uint32(x): Go's conversion of a non-negative int64 to uint32.

ToUint32(x) == x % Pow32

\* ------------------------------------------------------------ path handling
SLASH == "/"

RECURSIVE SplitSlash(_)
\* strings.Split(s, "/") on a character sequence: the segments between slashes.
SplitSlash(s) ==
  IF \A i \in 1..Len(s) : s[i] # SLASH THEN <<s>>
  ELSE LET k == CHOOSE i \in 1..Len(s) : s[i] = SLASH /\ \A j \in 1..(i-1) : s[j] # SLASH
       IN <<SubSeq(s, 1, k-1)>> \o SplitSlash(SubSeq(s, k+1, Len(s)))

RECURSIVE JoinSlash(_)
JoinSlash(segs) ==
  IF Len(segs) = 0 THEN <<>>
  ELSE IF Len(segs) = 1 THEN segs[1]
  ELSE segs[1] \o <<SLASH>> \o JoinSlash(Tail(segs))

RECURSIVE CleanSegs(_, _, _)
\* The component loop of path.Clean: out is the stack of kept components.
CleanSegs(segs, out, rooted) ==
  IF Len(segs) = 0 THEN out
  ELSE LET c == segs[1]
           rest == Tail(segs)
       IN IF c = <<>> \/ c = <<".">> THEN CleanSegs(rest, out, rooted)
          ELSE IF c = <<".", ".">>
               THEN IF Len(out) > 0 /\ out[Len(out)] # <<".", ".">>
                    THEN CleanSegs(rest, SubSeq(out, 1, Len(out)-1), rooted)
                    ELSE IF rooted THEN CleanSegs(rest, out, rooted)
                    ELSE CleanSegs(rest, Append(out, c), rooted)
               ELSE CleanSegs(rest, Append(out, c), rooted)

\* path.Clean of the Go standard library.
PathClean(s) ==
  IF Len(s) = 0 THEN <<".">>
  ELSE LET rooted == s[1] = SLASH
           body == JoinSlash(CleanSegs(SplitSlash(s), <<>>, rooted))
       IN IF rooted THEN <<SLASH>> \o body
          ELSE IF Len(body) = 0 THEN <<".">> ELSE body

\* path.Join(a, b) of the Go standard library: empty elements are dropped.
PathJoin(a, b) ==
  IF Len(a) = 0 /\ Len(b) = 0 THEN <<>>
  ELSE IF Len(a) = 0 THEN PathClean(b)
  ELSE IF Len(b) = 0 THEN PathClean(a)
  ELSE PathClean(a \o <<SLASH>> \o b)

\* The object path Upload and Delete compute inline from the partition.
ResolvePath(partition, relPath) ==
  IF ~partition.Exact /\ relPath # <<>>
  THEN PathJoin(partition.PathPrefix, relPath)
  ELSE partition.PathPrefix

\* strings.HasPrefix(s, "/") and strings.HasSuffix(s, "/").
HasPrefixSlash(s) == Len(s) > 0 /\ s[1] = SLASH

HasSuffixSlash(s) == Len(s) > 0 /\ s[Len(s)] = SLASH

\* Partition.Join: the method of db.Partition that joins a relative path to
\* the partition.
Join(p, relPath) ==
  IF ~p.Exact /\ relPath # <<>>
  THEN LET root1 == IF ~HasSuffixSlash(p.PathPrefix)
                    THEN p.PathPrefix \o <<SLASH>> ELSE p.PathPrefix
           rel1 == IF HasPrefixSlash(relPath) THEN Tail(relPath) ELSE relPath
           root2 == IF HasPrefixSlash(root1) THEN Tail(root1) ELSE root1
       IN root2 \o rel1
  ELSE p.PathPrefix

\* ------------------------------------------------------------ the database
\* Recorded usage of a partition; an absent partitions_usage row counts as 0.
UsageOf(usage, name) == IF name \in DOMAIN usage THEN usage[name] ELSE 0

\* partitionSizeWriteQuery whose ON CONFLICT update has lost its WHERE clause.
partitionSizeWriteQuery_NoWhere(parts, usage, name, size) ==
  LET admitted == {pt \in parts : pt.Name = name /\ pt.MaxSize >= size}
  IN IF admitted = {}
     THEN [err |-> "violates not-null constraint", rows |-> 0, usage |-> usage]
     ELSE IF name \notin DOMAIN usage
          THEN [err |-> "", rows |-> 1, usage |-> (name :> size) @@ usage]
          ELSE [err |-> "", rows |-> 1, usage |-> [usage EXCEPT ![name] = @ + size]]

\* One execution of partitionSizeWriteQuery by the store, as a single atomic
\* statement: err is the store's error text ("" for none), rows the rows
\* affected, usage the partitions_usage table afterwards.
partitionSizeWriteQuery(parts, usage, name, size) ==
  LET admitted == {pt \in parts : pt.Name = name /\ pt.MaxSize >= size}
      named == {pt \in parts : pt.Name = name}
  IN IF admitted = {}
     THEN [err |-> "violates not-null constraint", rows |-> 0, usage |-> usage]
     ELSE IF name \notin DOMAIN usage
          THEN [err |-> "", rows |-> 1, usage |-> (name :> size) @@ usage]
          ELSE IF \E pt \in named : pt.MaxSize >= usage[name] + size
               THEN [err |-> "", rows |-> 1,
                     usage |-> [usage EXCEPT ![name] = @ + size]]
               ELSE [err |-> "", rows |-> 0, usage |-> usage]

ErrFileTooLarge == "ErrFileTooLarge"

\* Error of a store call that failed for a reason of its own (connection lost...).
ErrStore == "store error"

\* WriteToPartitionUsagePool that does not look at RowsAffected.
WriteToPartitionUsagePool_IgnoresRows(parts, usage, name, size, fault) ==
  IF fault THEN [err |-> ErrStore, usage |-> usage]
  ELSE LET q == partitionSizeWriteQuery(parts, usage, name, size)
       IN IF q.err # ""
          THEN [err |-> ErrFileTooLarge, usage |-> q.usage]
          ELSE [err |-> "", usage |-> q.usage]

\* db.WriteToPartitionUsagePool; fault: the store call itself failed.
WriteToPartitionUsagePool(parts, usage, name, size, fault) ==
  IF fault THEN [err |-> ErrStore, usage |-> usage]
  ELSE LET q == partitionSizeWriteQuery(parts, usage, name, size)
       IN IF q.err # ""
          THEN [err |-> ErrFileTooLarge, usage |-> q.usage]
          ELSE IF q.rows = 0
               THEN [err |-> ErrFileTooLarge, usage |-> q.usage]
               ELSE [err |-> "", usage |-> q.usage]

\* RollbackPartitionUsagePool whose UPDATE has lost "AND size >= $1".
RollbackPartitionUsagePool_Unguarded(usage, name, size, fault) ==
  IF fault THEN [err |-> ErrStore, usage |-> usage]
  ELSE IF name \in DOMAIN usage
       THEN [err |-> "", usage |-> [usage EXCEPT ![name] = @ - size]]
       ELSE [err |-> "", usage |-> usage]

\* RollbackPartitionUsagePool that removes what exists when size is larger.
RollbackPartitionUsagePool_Clamps(usage, name, size, fault) ==
  IF fault THEN [err |-> ErrStore, usage |-> usage]
  ELSE IF name \in DOMAIN usage
       THEN [err |-> "",
             usage |-> [usage EXCEPT ![name] = IF @ >= size THEN @ - size ELSE 0]]
       ELSE [err |-> "", usage |-> usage]

\* RollbackPartitionUsagePool whose UPDATE asks for size > $1.
RollbackPartitionUsagePool_Strict(usage, name, size, fault) ==
  IF fault THEN [err |-> ErrStore, usage |-> usage]
  ELSE IF name \in DOMAIN usage /\ usage[name] > size
       THEN [err |-> "", usage |-> [usage EXCEPT ![name] = @ - size]]
       ELSE [err |-> "", usage |-> usage]

\* db.RollbackPartitionUsagePool:
\* UPDATE partitions_usage SET size = size - $1 WHERE name = $2 AND size >= $1
RollbackPartitionUsagePool(usage, name, size, fault) ==
  IF fault THEN [err |-> ErrStore, usage |-> usage]
  ELSE IF name \in DOMAIN usage /\ usage[name] >= size
       THEN [err |-> "", usage |-> [usage EXCEPT ![name] = @ - size]]
       ELSE [err |-> "", usage |-> usage]

\* The composite primary key (name, file_path) of partitions_files refuses a
\* second row for the same path.
PrimaryKeyViolated(files, name, path) == <<name, path>> \in files

\* db.WritePartitionFile: the insert fails when the store call fails or the
\* store refuses the row.
WritePartitionFile(files, name, path, fault) ==
  IF fault \/ PrimaryKeyViolated(files, name, path)
  THEN [err |-> ErrStore, files |-> files]
  ELSE [err |-> "", files |-> files \cup {<<name, path>>}]

\* A DeletePartitionFile whose row is gone although it reports an error.
DeletePartitionFile_Lost(files, name, path, fault) ==
  IF fault THEN [err |-> ErrStore, files |-> files \ {<<name, path>>}]
  ELSE [err |-> "", files |-> files \ {<<name, path>>}]

\* db.DeletePartitionFile: deleting a row that is not there is no error.
DeletePartitionFile(files, name, path, fault) ==
  IF fault THEN [err |-> ErrStore, files |-> files]
  ELSE [err |-> "", files |-> files \ {<<name, path>>}]

\* db.GetPartitionsByKey: the partitions joined to the key's rows.
GetPartitionsByKey(parts, keyrows, key) ==
  {pt \in parts : <<key, pt.Name>> \in keyrows}

\* ------------------------------------------------------------ the blob store
\* The codes the blob store's client has for a HEAD of a key with no object:
\* the response to a HEAD has no body, so the client names the error after
\* the status 404 (NotFound); NoSuchKey is the code a response with a body
\* carries.
HeadMissingCodes == {"NotFound", "NoSuchKey"}

\* s3.HeadObject: the object's size, or the error code of the blob store
\* (missing: the code for a key with no object).
HeadObject(objects, key, fault, missing) ==
  IF fault THEN [code |-> "RequestError", ContentLength |-> 0]
  ELSE IF key \notin DOMAIN objects THEN [code |-> missing, ContentLength |-> 0]
  ELSE [code |-> "", ContentLength |-> objects[key]]

\* s3manager Upload: the object at key is replaced by the body.
PutObject(objects, key, size) == (key :> size) @@ objects

\* s3.DeleteObject: deleting an absent object is no error.
DeleteObject(objects, key) == [k \in (DOMAIN objects) \ {key} |-> objects[k]]

\* ------------------------------------------------------------------- state
VARIABLES
  partitions,         \* table partitions: a set of db.Partition records
  keys,               \* table keys: a set of <<key, partition name>> rows
  partitions_usage,   \* table partitions_usage: partition name -> size
  partitions_files,   \* table partitions_files: a set of <<name, file_path>> rows
  s3,                 \* the bucket: object key -> stored size
  reqs,               \* the requests being served, one per handler goroutine
  ops,                \* number of requests accepted so far
  calls,              \* direct callers of the ledger functions (SpecLedger)
  usage0,             \* partitions_usage as it was at the start
  pure,               \* a call of one of the pure functions: inputs and result
  sweep               \* the DeletePartition request being served

vars ==
  <<partitions, keys, partitions_usage, partitions_files, s3, reqs, ops, calls, usage0,
    pure, sweep>>

\* Handler goroutines that may run at the same time.
Reqs == {"r1", "r2"}

\* Goroutines calling the ledger functions at the same time.
Callers == {"c1", "c2", "c3"}

\* A caller that has not called yet.
NoCall ==
  [fn |-> "none", pc |-> "free", size |-> 0, fault |-> FALSE, err |-> "",
   pre |-> <<>>, post |-> <<>>]

\* Request inputs.
Keys == {"k1", "kx"}

Names == {"P", "Q"}

RelPaths == {<<"a">>, <<"/", "a">>}

\* Declared Content-Length values: -1 is "unknown" (net/http), Pow32 + 1 is a
\* length of more than 2^32 bytes.
Lens == {-1} \cup (1..MaxLen) \cup {Pow32 + 1}

\* The partition of the model, in prefix mode with a policy or in exact mode
\* without one.
PrefixPartition ==
  [Name |-> "P", MaxSize |-> MaxSize, PathPrefix |-> <<"i">>, Exact |-> FALSE,
   Validates |-> "png"]

ExactPartition ==
  [Name |-> "P", MaxSize |-> MaxSize, PathPrefix |-> <<"e">>, Exact |-> TRUE,
   Validates |-> ""]

NoPartition ==
  [Name |-> "", MaxSize |-> 0, PathPrefix |-> <<>>, Exact |-> FALSE,
   Validates |-> ""]

\* No pure function is being called.
NoPure == [fn |-> "none"]

\* No DeletePartition request is being served.
NoSweep == [pc |-> "none"]

\* A goroutine with no request.
Idle ==
  [op |-> "none", pc |-> "idle", key |-> "", name |-> "", partition |-> NoPartition,
   p |-> <<>>,
   ContentLength |-> 0, rollback |-> FALSE, head |-> 0, code |-> "",
   delta |-> 0, row |-> FALSE, log |-> <<>>, missing |-> FALSE]

Init ==
  /\ partitions \in {{PrefixPartition}, {ExactPartition}}
  /\ keys = {<<"k1", "P">>}
  /\ partitions_usage = <<>>
  /\ partitions_files = {}
  /\ s3 = <<>>
  /\ reqs = [r \in Reqs |-> Idle]
  /\ ops = 0
  /\ calls = [c \in Callers |-> NoCall]
  /\ usage0 = partitions_usage
  /\ pure = NoPure
  /\ sweep = NoSweep

\* The handler returns code to the client; row: whether the partitions_files
\* row of the request's path is there at that moment.
Finish(rec, code, files) ==
  [rec EXCEPT !.pc = "done", !.code = code,
              !.row = <<rec.partition.Name, rec.p>> \in files]

\* One call the handler made, for the record of the request: ok is FALSE when
\* the call returned an error.
Did(rec, step, ok) == [rec EXCEPT !.log = Append(@, <<step, ok>>)]

\* The change a statement made to the recorded usage of the request's partition.
Moved(rec, usage) ==
  [rec EXCEPT !.delta = @ + UsageOf(usage, rec.partition.Name)
                          - UsageOf(partitions_usage, rec.partition.Name)]

\* ---------------------------------------------------------- authorization
\* getKeys followed by the search for the requested partition: the partition,
\* or the error code of the request.
FindPartition(key, name, fault) ==
  LET found == GetPartitionsByKey(partitions, keys, key)
  IN IF fault THEN [code |-> "internal_server_error", partition |-> NoPartition]
     ELSE IF found = {} THEN [code |-> "invalid_key", partition |-> NoPartition]
     ELSE IF \A pt \in found : pt.Name # name
          THEN [code |-> "invalid_partition", partition |-> NoPartition]
          ELSE [code |-> "", partition |-> CHOOSE pt \in found : pt.Name = name]

\* ------------------------------------------------------------------ Upload
\* An Upload that goes on when the reservation was refused.
ReserveCode_Proceeds(err) ==
  IF err = ErrFileTooLarge THEN ""
  ELSE IF err # "" THEN "internal_server_error"
  ELSE ""

\* What Upload answers to the error of WriteToPartitionUsagePool ("" when it
\* goes on).
ReserveCode(err) ==
  IF err = ErrFileTooLarge THEN "too_large"
  ELSE IF err # "" THEN "internal_server_error"
  ELSE ""

\* An Upload that does not look at the Content-Length it was given.
ContentLengthCode_Unchecked(len) == ""

\* What Upload answers to the Content-Length of the request ("" when it goes
\* on): -1 is net/http's value for a length that is not known.
ContentLengthCode(len) == IF len = -1 THEN "invalid_headers" ELSE ""

\* Upload up to and including the quota reservation.
UploadReserve(r, key, name, relPath, len, fKeys, fStore) ==
  /\ reqs[r].pc = "idle"
  /\ ops < MaxOps
  /\ ops' = ops + 1
  /\ LET f == FindPartition(key, name, fKeys)
         req == [Idle EXCEPT !.op = "Upload", !.key = key, !.name = name]
         rec == [req EXCEPT !.partition = f.partition,
                            !.p = ResolvePath(f.partition, relPath),
                            !.ContentLength = len]
         w == WriteToPartitionUsagePool(partitions, partitions_usage,
                                        f.partition.Name, ToUint32(len), fStore)
     IN IF f.code # ""
        THEN /\ reqs' = [reqs EXCEPT ![r] =
                          Finish(req, f.code, partitions_files)]
             /\ UNCHANGED partitions_usage
        ELSE IF ContentLengthCode(len) # ""
        THEN /\ reqs' = [reqs EXCEPT ![r] =
                          Finish(rec, ContentLengthCode(len), partitions_files)]
             /\ UNCHANGED partitions_usage
        ELSE IF ReserveCode(w.err) # ""
        THEN /\ reqs' = [reqs EXCEPT ![r] =
                          Finish(Did(Moved(rec, w.usage), "reserve", w.err = ""),
                                 ReserveCode(w.err), partitions_files)]
             /\ partitions_usage' = w.usage
        ELSE /\ reqs' = [reqs EXCEPT ![r] =
                          [Did(Moved(rec, w.usage), "reserve", w.err = "")
                             EXCEPT !.pc = "reserved", !.rollback = TRUE]]
             /\ partitions_usage' = w.usage
  /\ UNCHANGED <<pure, sweep, calls, usage0, partitions, keys, partitions_files, s3>>

\* Upload from the body read to the blob-store write: validations.Execute when
\* the partition has a policy (valid: the body passes it), then the S3 upload
\* (stored: it succeeds).
UploadStore(r, valid, stored) ==
  /\ reqs[r].pc = "reserved"
  /\ LET rec == reqs[r]
         checked == IF rec.partition.Validates # ""
                    THEN Did(rec, "validate", valid) ELSE rec
     IN IF rec.partition.Validates # "" /\ ~valid
        THEN /\ reqs' = [reqs EXCEPT ![r] =
                          [checked EXCEPT !.pc = "defer", !.code = "validation_failed"]]
             /\ UNCHANGED s3
        ELSE IF ~stored
        THEN /\ reqs' = [reqs EXCEPT ![r] =
                          [Did(checked, "put", FALSE)
                             EXCEPT !.pc = "defer", !.code = "internal_server_error"]]
             /\ UNCHANGED s3
        ELSE /\ reqs' = [reqs EXCEPT ![r] =
                          [Did(checked, "put", TRUE) EXCEPT !.pc = "written"]]
             /\ s3' = PutObject(s3, rec.p, rec.ContentLength)
  /\ UNCHANGED <<pure, sweep, calls, usage0, partitions, keys, partitions_usage, partitions_files, ops>>

\* Upload's WritePartitionFile call and what follows it: on success rollback
\* is cleared and the response returned, on error the handler returns with
\* rollback still set.
UploadRecord(r, fault) ==
  /\ reqs[r].pc = "written"
  /\ LET rec == reqs[r]
         w == WritePartitionFile(partitions_files, rec.partition.Name, rec.p, fault)
     IN /\ partitions_files' = w.files
        /\ reqs' = [reqs EXCEPT ![r] =
                     IF w.err # ""
                     THEN [Did(rec, "record", FALSE)
                             EXCEPT !.pc = "defer", !.code = "internal_server_error"]
                     ELSE Finish([Did(rec, "record", TRUE) EXCEPT !.rollback = FALSE],
                                 "ok", w.files)]
  /\ UNCHANGED <<pure, sweep, calls, usage0, partitions, keys, partitions_usage, s3, ops>>

\* The deferred function of Upload, run as the handler returns an error.
UploadDeferred(r, fault) ==
  /\ reqs[r].pc = "defer"
  /\ LET rec == reqs[r]
         rb == RollbackPartitionUsagePool(partitions_usage, rec.partition.Name,
                                          ToUint32(rec.ContentLength), fault)
     IN IF rec.rollback
        THEN /\ partitions_usage' = rb.usage
             /\ reqs' = [reqs EXCEPT ![r] =
                          Finish(Did(Moved(rec, rb.usage), "release", rb.err = ""),
                                 rec.code, partitions_files)]
        ELSE /\ UNCHANGED partitions_usage
             /\ reqs' = [reqs EXCEPT ![r] = Finish(rec, rec.code, partitions_files)]
  /\ UNCHANGED <<pure, sweep, calls, usage0, partitions, keys, partitions_files, s3, ops>>

\* ------------------------------------------------------------------ Delete
\* Delete up to and including the HEAD of the object.
DeleteHead(r, key, name, relPath, fKeys, fHead, missing) ==
  /\ reqs[r].pc = "idle"
  /\ ops < MaxOps
  /\ ops' = ops + 1
  /\ LET f == FindPartition(key, name, fKeys)
         req == [Idle EXCEPT !.op = "Delete", !.key = key, !.name = name]
         rec == [req EXCEPT !.partition = f.partition,
                            !.p = ResolvePath(f.partition, relPath),
                            !.missing = ~fHead /\ ResolvePath(f.partition, relPath)
                                                    \notin DOMAIN s3]
         st == HeadObject(s3, rec.p, fHead, missing)
     IN reqs' = [reqs EXCEPT ![r] =
          IF f.code # ""
          THEN Finish(req, f.code, partitions_files)
          ELSE IF st.code = "NoSuchKey"
          THEN Finish(Did(rec, "head", FALSE), "invalid_path", partitions_files)
          ELSE IF st.code # ""
          THEN Finish(Did(rec, "head", FALSE), "internal_server_error", partitions_files)
          ELSE [Did(rec, "head", TRUE) EXCEPT !.pc = "headed", !.head = st.ContentLength]]
  /\ UNCHANGED <<pure, sweep, calls, usage0, partitions, keys, partitions_usage, partitions_files, s3>>

\* Delete's DeleteObject call (deleted: it succeeds).
DeleteBlob(r, deleted) ==
  /\ reqs[r].pc = "headed"
  /\ LET rec == reqs[r]
     IN IF deleted
        THEN /\ s3' = DeleteObject(s3, rec.p)
             /\ reqs' = [reqs EXCEPT ![r] = [Did(rec, "s3delete", TRUE) EXCEPT !.pc = "deleted"]]
        ELSE /\ UNCHANGED s3
             /\ reqs' = [reqs EXCEPT ![r] =
                          Finish(Did(rec, "s3delete", FALSE), "internal_server_error",
                                 partitions_files)]
  /\ UNCHANGED <<pure, sweep, calls, usage0, partitions, keys, partitions_usage, partitions_files, ops>>

\* Delete's DeletePartitionFile call.
DeleteRecord(r, fault) ==
  /\ reqs[r].pc = "deleted"
  /\ LET rec == reqs[r]
         d == DeletePartitionFile(partitions_files, rec.partition.Name, rec.p, fault)
     IN /\ partitions_files' = d.files
        /\ reqs' = [reqs EXCEPT ![r] =
                     IF d.err # ""
                     THEN Finish(Did(rec, "unrecord", FALSE), "internal_server_error",
                                 d.files)
                     ELSE [Did(rec, "unrecord", TRUE) EXCEPT !.pc = "unrecorded"]]
  /\ UNCHANGED <<pure, sweep, calls, usage0, partitions, keys, partitions_usage, s3, ops>>

\* Delete's RollbackPartitionUsagePool call with the size HEAD returned.
DeleteRelease(r, fault) ==
  /\ reqs[r].pc = "unrecorded"
  /\ LET rec == reqs[r]
         rb == RollbackPartitionUsagePool(partitions_usage, rec.partition.Name,
                                          ToUint32(rec.head), fault)
     IN /\ partitions_usage' = rb.usage
        /\ reqs' = [reqs EXCEPT ![r] =
                     Finish(Did(Moved(rec, rb.usage), "release", rb.err = ""),
                            IF rb.err # "" THEN "internal_server_error" ELSE "ok",
                            partitions_files)]
  /\ UNCHANGED <<pure, sweep, calls, usage0, partitions, keys, partitions_files, s3, ops>>

\* The response has been written; the goroutine is free for the next request.
Respond(r) ==
  /\ reqs[r].pc = "done"
  /\ reqs' = [reqs EXCEPT ![r] = Idle]
  /\ UNCHANGED <<pure, sweep, calls, usage0, partitions, keys, partitions_usage, partitions_files, s3, ops>>

Next ==
  \/ \E r \in Reqs, key \in Keys, name \in Names, relPath \in RelPaths, len \in Lens,
        fKeys \in BOOLEAN, fStore \in BOOLEAN :
        UploadReserve(r, key, name, relPath, len, fKeys, fStore)
  \/ \E r \in Reqs, valid \in BOOLEAN, stored \in BOOLEAN : UploadStore(r, valid, stored)
  \/ \E r \in Reqs, fault \in BOOLEAN : UploadRecord(r, fault)
  \/ \E r \in Reqs, fault \in BOOLEAN : UploadDeferred(r, fault)
  \/ \E r \in Reqs, key \in Keys, name \in Names, relPath \in RelPaths,
        fKeys \in BOOLEAN, fHead \in BOOLEAN, missing \in HeadMissingCodes :
        DeleteHead(r, key, name, relPath, fKeys, fHead, missing)
  \/ \E r \in Reqs, deleted \in BOOLEAN : DeleteBlob(r, deleted)
  \/ \E r \in Reqs, fault \in BOOLEAN : DeleteRecord(r, fault)
  \/ \E r \in Reqs, fault \in BOOLEAN : DeleteRelease(r, fault)
  \/ \E r \in Reqs : Respond(r)

Spec == Init /\ [][Next]_vars

\* ------------------------------------------------- the ledger called directly
\* Concurrent calls of WriteToPartitionUsagePool and RollbackPartitionUsagePool
\* on one partition, from any recorded usage the ledger can hold.
InitLedger ==
  /\ partitions = {PrefixPartition}
  /\ keys = {<<"k1", "P">>}
  /\ partitions_usage \in {<<>>} \cup {("P" :> u) : u \in 0..MaxSize}
  /\ partitions_files = {}
  /\ s3 = <<>>
  /\ reqs = [r \in Reqs |-> Idle]
  /\ ops = 0
  /\ calls = [c \in Callers |-> NoCall]
  /\ usage0 = partitions_usage
  /\ pure = NoPure
  /\ sweep = NoSweep

\* A goroutine enters one of the two functions; its statement has not run yet.
LedgerCall(c, fn, size) ==
  /\ calls[c].pc = "free"
  /\ calls' = [calls EXCEPT ![c] = [NoCall EXCEPT !.fn = fn, !.pc = "called", !.size = size]]
  /\ UNCHANGED <<pure, sweep, usage0, partitions, keys, partitions_usage, partitions_files, s3, reqs, ops>>

\* The store runs the statement of a WriteToPartitionUsagePool call and the
\* call returns.
LedgerWrite(c, fault) ==
  /\ calls[c].pc = "called"
  /\ calls[c].fn = "write"
  /\ LET w == WriteToPartitionUsagePool(partitions, partitions_usage, "P",
                                        calls[c].size, fault)
     IN /\ partitions_usage' = w.usage
        /\ calls' = [calls EXCEPT ![c] =
                      [@ EXCEPT !.pc = "returned", !.fault = fault, !.err = w.err,
                                !.pre = partitions_usage, !.post = w.usage]]
  /\ UNCHANGED <<pure, sweep, usage0, partitions, keys, partitions_files, s3, reqs, ops>>

\* The store runs the statement of a RollbackPartitionUsagePool call and the
\* call returns.
LedgerRollback(c, fault) ==
  /\ calls[c].pc = "called"
  /\ calls[c].fn = "rollback"
  /\ LET rb == RollbackPartitionUsagePool(partitions_usage, "P", calls[c].size, fault)
     IN /\ partitions_usage' = rb.usage
        /\ calls' = [calls EXCEPT ![c] =
                      [@ EXCEPT !.pc = "returned", !.fault = fault, !.err = rb.err,
                                !.pre = partitions_usage, !.post = rb.usage]]
  /\ UNCHANGED <<pure, sweep, usage0, partitions, keys, partitions_files, s3, reqs, ops>>

NextLedger ==
  \/ \E c \in Callers, fn \in {"write", "rollback"}, size \in 0..(MaxSize + 1) :
        LedgerCall(c, fn, size)
  \/ \E c \in Callers, fault \in BOOLEAN : LedgerWrite(c, fault)
  \/ \E c \in Callers, fault \in BOOLEAN : LedgerRollback(c, fault)

SpecLedger == InitLedger /\ [][NextLedger]_vars

\* ------------------------------------------------------ path resolution alone
\* Longest relative path a request carries.
MaxPath == 4

\* The characters of the relative paths of the model.
PathChars == {"a", SLASH, "."}

\* Every relative path of at most MaxPath characters.
AllRelPaths == UNION {[1..n -> PathChars] : n \in 0..MaxPath}

\* Partitions in prefix mode and in exact mode, with and without a slash at
\* either end of the path prefix.
PathPartitions ==
  {[Name |-> "P", MaxSize |-> MaxSize, PathPrefix |-> pre, Exact |-> ex,
    Validates |-> ""] :
     pre \in {<<"i">>, <<"i", SLASH>>, <<SLASH, "i">>}, ex \in BOOLEAN}

\* A request for a partition with a relative path, before its object path is
\* resolved.
InitPath ==
  /\ \E pt \in PathPartitions, rp \in AllRelPaths :
        pure = [fn |-> "path", pc |-> "call", partition |-> pt, relPath |-> rp,
                p |-> <<>>, by |-> "none"]
  /\ partitions = {pure.partition}
  /\ keys = {<<"k1", "P">>}
  /\ partitions_usage = <<>>
  /\ partitions_files = {}
  /\ s3 = <<>>
  /\ reqs = [r \in Reqs |-> Idle]
  /\ ops = 0
  /\ calls = [c \in Callers |-> NoCall]
  /\ usage0 = partitions_usage
  /\ sweep = NoSweep

\* Upload and Delete resolve the object path with their inline path.Join.
ResolveInHandler ==
  /\ pure.fn = "path" /\ pure.pc = "call"
  /\ pure' = [pure EXCEPT !.pc = "returned", !.by = "handler",
                          !.p = ResolvePath(pure.partition, pure.relPath)]
  /\ UNCHANGED <<sweep, calls, usage0, partitions, keys, partitions_usage,
                 partitions_files, s3, reqs, ops>>

\* Partition.Join is called with the relative path.
ResolveByJoin ==
  /\ pure.fn = "path" /\ pure.pc = "call"
  /\ pure' = [pure EXCEPT !.pc = "returned", !.by = "Join",
                          !.p = Join(pure.partition, pure.relPath)]
  /\ UNCHANGED <<sweep, calls, usage0, partitions, keys, partitions_usage,
                 partitions_files, s3, reqs, ops>>

NextPath == ResolveInHandler \/ ResolveByJoin

SpecPath == InitPath /\ [][NextPath]_vars

\* ---------------------------------------------------------------- validations
\* Policies, tokens and formatted numbers are sequences of one-character
\* strings; a buffer is a sequence of numbers: its first byte tells what it
\* decodes as, the next two are the width and the height of the image.
RECURSIVE Split(_, _)
\* strings.Split(s, sep) for a one-character separator.
Split(s, sep) ==
  IF \A i \in 1..Len(s) : s[i] # sep THEN <<s>>
  ELSE LET k == CHOOSE i \in 1..Len(s) : s[i] = sep /\ \A j \in 1..(i-1) : s[j] # sep
       IN <<SubSeq(s, 1, k-1)>> \o Split(SubSeq(s, k+1, Len(s)), sep)

DigitChars == <<"0", "1", "2", "3", "4", "5", "6", "7", "8", "9">>

RECURSIVE FormatInt(_)
\* fmt's %d of a non-negative int.
FormatInt(n) ==
  IF n < 10 THEN <<DigitChars[n + 1]>>
  ELSE FormatInt(n \div 10) \o <<DigitChars[(n % 10) + 1]>>

\* \d+ of the regular expression.
IsDigits(s) == Len(s) > 0 /\ \A i \in 1..Len(s) : \E d \in 1..10 : DigitChars[d] = s[i]

\* aspectRatioRegex.MatchString(s) for ^(\d+):(\d+)$
aspectRatioRegex(s) ==
  LET parts == Split(s, ":")
  IN Len(parts) = 2 /\ IsDigits(parts[1]) /\ IsDigits(parts[2])

RECURSIVE gcd(_, _)
\* The gcd closure of calculateAspectRatio.
gcd(a, b) == IF b # 0 THEN gcd(b, a % b) ELSE a

\* calculateAspectRatio that does not reduce the ratio.
calculateAspectRatio_Unreduced(width, height) ==
  IF width = 0 \/ height = 0 THEN <<"0", ":", "0">>
  ELSE FormatInt(width) \o <<":">> \o FormatInt(height)

\* validators.calculateAspectRatio
calculateAspectRatio(width, height) ==
  IF width = 0 \/ height = 0 THEN <<"0", ":", "0">>
  ELSE LET divisor == gcd(width, height)
           aspectRatioWidth == width \div divisor
           aspectRatioHeight == height \div divisor
       IN FormatInt(aspectRatioWidth) \o <<":">> \o FormatInt(aspectRatioHeight)

\* First bytes of the buffers of the model: a JPEG, a PNG, an SVG document.
MagicJpeg == 255

MagicPng == 137

MagicSvg == 60

\* jpeg.Decode, png.Decode, xml.Unmarshal into <svg> and imaging.Decode
\* succeed on the buffer.
DecodesAs(b, magic) == Len(b) = 3 /\ b[1] = magic

ImagingDecodes(b) == DecodesAs(b, MagicJpeg) \/ DecodesAs(b, MagicPng)

\* The words the validators match.
WordJpeg == <<"j", "p", "e", "g">>

WordJpg == <<"j", "p", "g">>

WordPng == <<"p", "n", "g">>

WordSvg == <<"s", "v", "g">>

\* validators.Validators, in the order the init functions append to it.
Validators == <<"aspectRatioValidator", "jpegValidator", "pngValidator", "svgValidator">>

\* Validator.Matches
Matches(validator, s) ==
  CASE validator = "aspectRatioValidator" -> aspectRatioRegex(s)
    [] validator = "jpegValidator" -> s = WordJpeg \/ s = WordJpg
    [] validator = "pngValidator" -> s = WordPng
    [] validator = "svgValidator" -> s = WordSvg

\* Validator.Validate: the error text, "" for nil.
ValidatorValidate(validator, b, s) ==
  CASE validator = "aspectRatioValidator" ->
         IF ~ImagingDecodes(b) THEN "The image specified is not a valid image"
         ELSE IF calculateAspectRatio(b[2], b[3]) # s
              THEN "The image specified does not match the aspect ratio"
              ELSE ""
    [] validator = "jpegValidator" ->
         IF DecodesAs(b, MagicJpeg) THEN "" ELSE "The image specified is not a jpeg"
    [] validator = "pngValidator" ->
         IF DecodesAs(b, MagicPng) THEN "" ELSE "The image specified is not a png"
    [] validator = "svgValidator" ->
         IF DecodesAs(b, MagicSvg) THEN "" ELSE "The image specified is not a svg"

RECURSIVE ValidateFrom(_, _)
\* The loop of validations.Validate from token i on.
ValidateFrom(tokens, i) ==
  IF i > Len(tokens) THEN TRUE
  ELSE IF \E j \in DOMAIN Validators : Matches(Validators[j], tokens[i])
       THEN ValidateFrom(tokens, i + 1)
       ELSE FALSE

\* validations.Validate that passes over empty tokens.
Validate_SkipsEmpty(validations) ==
  ValidateFrom(SelectSeq(Split(validations, "+"), LAMBDA t : t # <<>>), 1)

\* validations.Validate
Validate(validations) == ValidateFrom(Split(validations, "+"), 1)

ErrRead == "read error"

RECURSIVE ExecuteFrom(_, _, _, _, _)
\* The two loops of validations.Execute from token i and validator j on;
\* invoked lists the <<token index, validator index>> of the Validate calls.
ExecuteFrom(b, tokens, i, j, invoked) ==
  IF i > Len(tokens) THEN [err |-> "", r |-> b, invoked |-> invoked]
  ELSE IF j > Len(Validators) THEN ExecuteFrom(b, tokens, i + 1, 1, invoked)
  ELSE IF Matches(Validators[j], tokens[i])
       THEN LET err == ValidatorValidate(Validators[j], b, tokens[i])
            IN IF err # ""
               THEN [err |-> err, r |-> <<>>, invoked |-> Append(invoked, <<i, j>>)]
               ELSE ExecuteFrom(b, tokens, i, j + 1, Append(invoked, <<i, j>>))
       ELSE ExecuteFrom(b, tokens, i, j + 1, invoked)

RECURSIVE ExecuteAll(_, _, _, _, _, _)
\* Loops of an Execute that goes on after a failure and returns the last one.
ExecuteAll(b, tokens, i, j, invoked, last) ==
  IF i > Len(tokens)
  THEN [err |-> last, r |-> IF last = "" THEN b ELSE <<>>, invoked |-> invoked]
  ELSE IF j > Len(Validators) THEN ExecuteAll(b, tokens, i + 1, 1, invoked, last)
  ELSE IF Matches(Validators[j], tokens[i])
       THEN LET err == ValidatorValidate(Validators[j], b, tokens[i])
            IN ExecuteAll(b, tokens, i, j + 1, Append(invoked, <<i, j>>),
                          IF err # "" THEN err ELSE last)
       ELSE ExecuteAll(b, tokens, i, j + 1, invoked, last)

\* validations.Execute that does not stop at the first failure.
Execute_GoesOn(b, validations, readErr) ==
  IF readErr THEN [err |-> ErrRead, r |-> <<>>, invoked |-> <<>>]
  ELSE ExecuteAll(b, Split(validations, "+"), 1, 1, <<>>, "")

\* validations.Execute on a reader holding the bytes b (readErr: io.ReadAll
\* fails): err is the error text ("" for nil), r the bytes of the reader
\* returned.
Execute(b, validations, readErr) ==
  IF readErr THEN [err |-> ErrRead, r |-> <<>>, invoked |-> <<>>]
  ELSE ExecuteFrom(b, Split(validations, "+"), 1, 1, <<>>)

\* ------------------------------------------------- the validations called alone
\* Most tokens of a policy.
MaxTokens == 2

\* Largest width and height of an image.
MaxDim == 18

\* Largest factor both dimensions of an image are scaled by.
MaxScale == 3

\* The tokens policies are built from: the words of the validators, aspect
\* ratios, the empty token and tokens no validator matches.
PolicyTokens ==
  {<<>>, WordJpeg, WordJpg, WordPng, WordSvg, <<"1", "6", ":", "9">>,
   <<"1", ":", "1">>, <<"3", "2", ":", "1", "8">>, <<"g", "i", "f">>, <<"4", ":">>}

RECURSIVE JoinPlus(_)
JoinPlus(tokens) ==
  IF Len(tokens) = 0 THEN <<>>
  ELSE IF Len(tokens) = 1 THEN tokens[1]
  ELSE tokens[1] \o <<"+">> \o JoinPlus(Tail(tokens))

\* The policies of at most MaxTokens tokens.
Policies == {JoinPlus(ts) : ts \in UNION {[1..n -> PolicyTokens] : n \in 0..MaxTokens}}

\* The buffers: images of some sizes, an SVG document, bytes that decode as
\* nothing, no bytes.
Buffers ==
  {<<m, d[1], d[2]>> : m \in {MagicJpeg, MagicPng},
                       d \in {<<16, 9>>, <<32, 18>>, <<1, 1>>, <<4, 3>>}}
    \cup {<<MagicSvg, 0, 0>>, <<0, 0, 0>>, <<>>}

\* A call of Validate or Execute with a policy and a buffer, or a call of
\* calculateAspectRatio with the size of an image and of the image scaled.
InitValidations ==
  /\ \/ \E policy \in Policies, b \in Buffers :
          pure = [fn |-> "validations", pc |-> "call", validations |-> policy,
                  b |-> b, by |-> "none", ok |-> FALSE, err |-> "", r |-> <<>>,
                  invoked |-> <<>>, readErr |-> FALSE]
     \/ \E width \in 0..MaxDim, height \in 0..MaxDim, k \in 1..MaxScale :
          pure = [fn |-> "ratio", pc |-> "call", width |-> width, height |-> height,
                  k |-> k, ratio |-> <<>>, scaled |-> <<>>]
  /\ partitions = {PrefixPartition}
  /\ keys = {<<"k1", "P">>}
  /\ partitions_usage = <<>>
  /\ partitions_files = {}
  /\ s3 = <<>>
  /\ reqs = [r \in Reqs |-> Idle]
  /\ ops = 0
  /\ calls = [c \in Callers |-> NoCall]
  /\ usage0 = partitions_usage
  /\ sweep = NoSweep

\* CreatePartition calls validations.Validate on the value of an ensure rule.
CallValidate ==
  /\ pure.fn = "validations" /\ pure.pc = "call"
  /\ pure' = [pure EXCEPT !.pc = "returned", !.by = "Validate",
                          !.ok = Validate(pure.validations)]
  /\ UNCHANGED <<sweep, calls, usage0, partitions, keys, partitions_usage,
                 partitions_files, s3, reqs, ops>>

\* Upload calls validations.Execute on the body and the policy of the partition.
CallExecute(readErr) ==
  /\ pure.fn = "validations" /\ pure.pc = "call"
  /\ LET e == Execute(pure.b, pure.validations, readErr)
     IN pure' = [pure EXCEPT !.pc = "returned", !.by = "Execute", !.err = e.err,
                             !.r = e.r, !.invoked = e.invoked, !.readErr = readErr]
  /\ UNCHANGED <<sweep, calls, usage0, partitions, keys, partitions_usage,
                 partitions_files, s3, reqs, ops>>

\* calculateAspectRatio is called on an image and on the image scaled by k.
CallCalculateAspectRatio ==
  /\ pure.fn = "ratio" /\ pure.pc = "call"
  /\ pure' = [pure EXCEPT !.pc = "returned",
                 !.ratio = calculateAspectRatio(pure.width, pure.height),
                 !.scaled = calculateAspectRatio(pure.k * pure.width, pure.k * pure.height)]
  /\ UNCHANGED <<sweep, calls, usage0, partitions, keys, partitions_usage,
                 partitions_files, s3, reqs, ops>>

NextValidations ==
  \/ CallValidate
  \/ \E readErr \in BOOLEAN : CallExecute(readErr)
  \/ CallCalculateAspectRatio

SpecValidations == InitValidations /\ [][NextValidations]_vars

\* ------------------------------------------------------------ DeletePartition
\* Most files recorded for the partition that is deleted.
MaxFiles == 2

\* The superuser secret of the configuration.
SudoKey == "sudo"

\* The closure isSudoKey returns.
isSudoKey(s) == s = SudoKey

\* A validateSudoKey that lets every key through.
validateSudoKey_Open(key) == ""

\* apiServer.validateSudoKey: the error code, "" for nil.
validateSudoKey(key) == IF isSudoKey(key) THEN "" ELSE "invalid_key"

ErrPartitionNotExists == "ErrPartitionNotExists"

\* db.DeletePartition: DELETE FROM partitions WHERE name = $1; the rows of
\* partitions_usage and keys that reference the partition go with it (ON
\* DELETE CASCADE), those of partitions_files do not.
DeletePartition(parts, keyrows, usage, name, fault) ==
  IF fault
  THEN [err |-> ErrStore, partitions |-> parts, keys |-> keyrows, usage |-> usage]
  ELSE IF \A pt \in parts : pt.Name # name
  THEN [err |-> ErrPartitionNotExists, partitions |-> parts, keys |-> keyrows,
        usage |-> usage]
  ELSE [err |-> "", partitions |-> {pt \in parts : pt.Name # name},
        keys |-> {k \in keyrows : k[2] # name},
        usage |-> [n \in (DOMAIN usage) \ {name} |-> usage[n]]]

\* The object paths recorded for the partition of the model.
FilePath(n) == <<"i", SLASH, DigitChars[n + 1]>>

RECURSIVE SelectFilePaths(_, _, _)
\* SELECT file_path FROM partitions_files WHERE name = $1, from the n-th path on.
SelectFilePaths(files, name, n) ==
  IF n > MaxFiles THEN <<>>
  ELSE (IF <<name, FilePath(n)>> \in files THEN <<FilePath(n)>> ELSE <<>>)
         \o SelectFilePaths(files, name, n + 1)

\* A deferred wg.Done() that is skipped when the delete failed.
WaitGroupDone_OnSuccess(wg, ok) == IF ok THEN wg - 1 ELSE wg

\* The deferred wg.Done() of the goroutine of hn.
WaitGroupDone(wg, ok) == wg - 1

\* The handler before a DeletePartition request: wg is the counter of the
\* WaitGroup, jobs the goroutines hn has started, rows the rows of the listing
\* not yet scanned; existed and listed are what the tables held for the name
\* when the request came.
IdleSweep ==
  [pc |-> "idle", key |-> "", name |-> "", code |-> "", pass |-> 0, rows |-> <<>>,
   e2 |-> "",
   wg |-> 0, jobs |-> <<>>, existed |-> FALSE, listed |-> <<>>, dberr |-> ""]

InitSweep ==
  /\ partitions \in {{PrefixPartition}, {}}
  /\ keys = {<<"k1", pt.Name>> : pt \in partitions}
  /\ partitions_usage \in {[n \in {pt.Name : pt \in partitions} |-> 1]}
  /\ partitions_files \in SUBSET ({"P"} \X {FilePath(n) : n \in 1..MaxFiles})
  /\ s3 = [p \in {FilePath(n) : n \in 1..MaxFiles} |-> 1]
  /\ reqs = [r \in Reqs |-> Idle]
  /\ ops = 0
  /\ calls = [c \in Callers |-> NoCall]
  /\ usage0 = partitions_usage
  /\ pure = NoPure
  /\ sweep = IdleSweep

\* Where DeletePartitionFiles and the loop around it go on: to the next row,
\* to the second pass, or past the loop.
Advance(sw) ==
  IF sw.rows # <<>> THEN [sw EXCEPT !.pc = "iter"]
  ELSE IF sw.pass = 2 THEN [sw EXCEPT !.pc = "after"]
  ELSE [sw EXCEPT !.pc = "query", !.pass = 2]

\* apiServer.DeletePartition up to the end of its db.DeletePartition call.
DeletePartitionBegin(key, name, fault) ==
  /\ sweep.pc = "idle"
  /\ LET d == DeletePartition(partitions, keys, partitions_usage, name, fault)
         sw == [sweep EXCEPT !.key = key, !.name = name,
                             !.existed = \E pt \in partitions : pt.Name = name,
                             !.listed = SelectFilePaths(partitions_files, name, 1)]
     IN IF validateSudoKey(key) # ""
        THEN /\ sweep' = [sw EXCEPT !.pc = "done", !.code = validateSudoKey(key)]
             /\ UNCHANGED <<partitions, keys, partitions_usage>>
        ELSE /\ partitions' = d.partitions
             /\ keys' = d.keys
             /\ partitions_usage' = d.usage
             /\ sweep' = IF d.err = ErrPartitionNotExists
                         THEN [sw EXCEPT !.pc = "done", !.code = "invalid_partition",
                                         !.dberr = d.err]
                         ELSE [sw EXCEPT !.pc = "query", !.pass = 1, !.dberr = d.err]
  /\ UNCHANGED <<pure, calls, usage0, partitions_files, s3, reqs, ops>>

\* The query of a DeletePartitionFiles call.
DeletePartitionFilesQuery(fault) ==
  /\ sweep.pc = "query"
  /\ sweep' = IF fault THEN [sweep EXCEPT !.pc = "after", !.e2 = ErrStore]
              ELSE Advance([sweep EXCEPT
                              !.rows = SelectFilePaths(partitions_files, sweep.name, 1)])
  /\ UNCHANGED <<pure, calls, usage0, partitions, keys, partitions_usage,
                 partitions_files, s3, reqs, ops>>

\* One turn of the rows loop of DeletePartitionFiles: the row is scanned and
\* hn adds one to the WaitGroup and starts the goroutine that deletes the
\* object.
DeletePartitionFilesRow(scanErr) ==
  /\ sweep.pc = "iter"
  /\ sweep' = IF scanErr
              THEN [sweep EXCEPT !.pc = "after", !.e2 = ErrStore, !.rows = <<>>]
              ELSE Advance([sweep EXCEPT
                              !.rows = Tail(@), !.wg = @ + 1,
                              !.jobs = Append(@, [path |-> sweep.rows[1],
                                                  st |-> "running", ok |-> FALSE])])
  /\ UNCHANGED <<pure, calls, usage0, partitions, keys, partitions_usage,
                 partitions_files, s3, reqs, ops>>

\* A goroutine started by hn calls S3 DeleteObject (ok: the call succeeds) and
\* ends.
DeleteGoroutine(i, ok) ==
  /\ i \in DOMAIN sweep.jobs
  /\ sweep.jobs[i].st = "running"
  /\ s3' = IF ok THEN DeleteObject(s3, sweep.jobs[i].path) ELSE s3
  /\ sweep' = [sweep EXCEPT !.jobs[i].st = "ended", !.jobs[i].ok = ok,
                            !.wg = WaitGroupDone(@, ok)]
  /\ UNCHANGED <<pure, calls, usage0, partitions, keys, partitions_usage,
                 partitions_files, reqs, ops>>

\* apiServer.DeletePartition after the loop: an error of the listing is
\* answered at once, otherwise wg.Wait() returns when the counter is 0 and the
\* handler answers success.
DeletePartitionReturn ==
  /\ sweep.pc = "after"
  /\ IF sweep.e2 # ""
     THEN sweep' = [sweep EXCEPT !.pc = "done", !.code = "internal_server_error"]
     ELSE /\ sweep.wg = 0
          /\ sweep' = [sweep EXCEPT !.pc = "done", !.code = "ok"]
  /\ UNCHANGED <<pure, calls, usage0, partitions, keys, partitions_usage,
                 partitions_files, s3, reqs, ops>>

NextSweep ==
  \/ \E key \in {SudoKey, "kx"}, name \in Names, fault \in BOOLEAN :
        DeletePartitionBegin(key, name, fault)
  \/ \E fault \in BOOLEAN : DeletePartitionFilesQuery(fault)
  \/ \E scanErr \in BOOLEAN : DeletePartitionFilesRow(scanErr)
  \/ \E i \in 1..(2 * MaxFiles), ok \in BOOLEAN : DeleteGoroutine(i, ok)
  \/ DeletePartitionReturn

SpecSweep == InitSweep /\ [][NextSweep]_vars

\* The handler and the goroutines it started keep running: none of them stops
\* for ever while it can take a step.
SpecSweepFair == SpecSweep /\ WF_vars(NextSweep)

\* ------------------------------------------------- two partitions and their keys
\* A second partition in prefix mode, with a key of its own.
OtherPartition ==
  [Name |-> "Q", MaxSize |-> MaxSize, PathPrefix |-> <<"j">>, Exact |-> FALSE,
   Validates |-> ""]

\* Relative paths of the requests: a plain one, and one that names an object
\* of the other partition from below the prefix of the first.
TenantRelPaths == {<<"a">>, <<".", ".", SLASH, "j", SLASH, "a">>}

InitTenants ==
  /\ partitions = {PrefixPartition, OtherPartition}
  /\ keys = {<<"k1", "P">>, <<"k2", "Q">>}
  /\ partitions_usage = <<>>
  /\ partitions_files = {}
  /\ s3 = <<>>
  /\ reqs = [r \in Reqs |-> Idle]
  /\ ops = 0
  /\ calls = [c \in Callers |-> NoCall]
  /\ usage0 = partitions_usage
  /\ pure = NoPure
  /\ sweep = NoSweep

\* Upload and Delete requests of the keys k1 (mapped to P), k2 (mapped to Q)
\* and kx (mapped to nothing), with a store that does not fail.
NextTenants ==
  \/ \E r \in Reqs, key \in {"k1", "k2", "kx"}, name \in Names,
        relPath \in TenantRelPaths :
        UploadReserve(r, key, name, relPath, 1, FALSE, FALSE)
  \/ \E r \in Reqs, valid \in BOOLEAN : UploadStore(r, valid, TRUE)
  \/ \E r \in Reqs : UploadRecord(r, FALSE)
  \/ \E r \in Reqs : UploadDeferred(r, FALSE)
  \/ \E r \in Reqs, key \in {"k1", "k2", "kx"}, name \in Names,
        relPath \in TenantRelPaths, missing \in HeadMissingCodes :
        DeleteHead(r, key, name, relPath, FALSE, FALSE, missing)
  \/ \E r \in Reqs : DeleteBlob(r, TRUE)
  \/ \E r \in Reqs : DeleteRecord(r, FALSE)
  \/ \E r \in Reqs : DeleteRelease(r, FALSE)
  \/ \E r \in Reqs : Respond(r)

SpecTenants == InitTenants /\ [][NextTenants]_vars

\* ------------------------------------------------------------------ parseSize
\* strings.TrimSpace on a character sequence.
RECURSIVE TrimSpace(_)
TrimSpace(s) ==
  IF Len(s) = 0 THEN s
  ELSE IF s[1] = " " THEN TrimSpace(Tail(s))
  ELSE IF s[Len(s)] = " " THEN TrimSpace(SubSeq(s, 1, Len(s) - 1))
  ELSE s

\* strings.ToLower on the letters the model writes in upper case.
ToLower(s) ==
  [i \in DOMAIN s |->
     CASE s[i] = "B" -> "b" [] s[i] = "G" -> "g" [] s[i] = "K" -> "k"
       [] s[i] = "M" -> "m" [] s[i] = "T" -> "t" [] OTHER -> s[i]]

\* c >= '0' && c <= '9'
IsDigit(c) == \E d \in 1..10 : DigitChars[d] = c

RECURSIVE ParseUint(_, _)
\* strconv.ParseUint(s, 10, 64) of a string of digits, from the value acc of
\* the digits read so far.
ParseUint(s, acc) ==
  IF Len(s) = 0 THEN acc
  ELSE ParseUint(Tail(s), acc * 10 + (CHOOSE d \in 0..9 : DigitChars[d + 1] = s[1]))

\* The number of bytes size in KiB. The sizes the model writes in bytes are
\* whole KiB.
BytesToKiB(size) == size \div 1024

\* The constant halftb: 500 * 1024 * 1024 bytes, in KiB.
halftb == 500 * 1024

\* The text of a unit no case of parseSize has.
ErrInvalidSize == "invalid size"

\* parseSize: the error text ("" for nil) and the uint32 returned, in KiB.
\* The loop from the end of the string stops at the last digit; without a
\* digit size stays 0 and unit empty.
parseSize(str) ==
  LET s == ToLower(TrimSpace(str))
      digits == {i \in 1..Len(s) : IsDigit(s[i])}
      last == IF digits = {} THEN 0 ELSE CHOOSE i \in digits : \A j \in digits : j <= i
      sizeStr == SubSeq(s, 1, last)
      size == ParseUint(sizeStr, 0)
      unit == TrimSpace(IF digits = {} THEN <<>> ELSE SubSeq(s, last + 1, Len(s)))
  IN IF Len(s) = 0 THEN [err |-> ErrInvalidSize, size |-> 0]
     ELSE IF \E i \in 1..last : ~IsDigit(s[i]) THEN [err |-> ErrInvalidSize, size |-> 0]
     ELSE CASE unit = <<>> -> [err |-> "", size |-> ToUint32(BytesToKiB(size))]
            [] unit = <<"b">> -> [err |-> "", size |-> ToUint32(BytesToKiB(size))]
            [] unit = <<"k", "b">> -> [err |-> "", size |-> ToUint32(size)]
            [] unit = <<"m", "b">> -> [err |-> "", size |-> ToUint32(size * 1024)]
            [] unit = <<"g", "b">> -> [err |-> "", size |-> ToUint32(size * 1024 * 1024)]
            [] unit = <<"t", "b">> ->
                 [err |-> "", size |-> ToUint32(size * 1024 * 1024 * 1024)]
            [] OTHER -> [err |-> ErrInvalidSize, size |-> 0]

\* ------------------------------------------------- administrative handlers
\* db.InsertKey: one INSERT INTO keys per partition, sent as one batch. A
\* partition that is not in partitions breaks the foreign key of keys and the
\* batch inserts nothing.
InsertKey(parts, keyrows, key, names, fault) ==
  IF fault \/ \E i \in DOMAIN names : \A pt \in parts : pt.Name # names[i]
  THEN [err |-> ErrStore, keys |-> keyrows]
  ELSE [err |-> "", keys |-> keyrows \cup {<<key, names[i]>> : i \in DOMAIN names}]

\* db.DeleteKey: DELETE FROM keys WHERE key = $1
DeleteKeyRows(keyrows, key, fault) ==
  IF fault THEN [err |-> ErrStore, keys |-> keyrows]
  ELSE [err |-> "", keys |-> {k \in keyrows : k[1] # key}]

ErrPartitionExists == "ErrPartitionExists"

\* The largest value of the INTEGER column max_size: 2^31 - 1 bytes leave
\* room for 2^21 - 1 whole KiB.
MaxInteger == 2097151

\* An InsertPartition that replaces the row of the same name.
InsertPartition_Replaces(parts, p, fault) ==
  IF fault \/ p.MaxSize > MaxInteger THEN [err |-> ErrStore, partitions |-> parts]
  ELSE [err |-> "", partitions |-> {pt \in parts : pt.Name # p.Name} \cup {p}]

\* db.InsertPartition: name is the primary key of partitions, and a max_size
\* the INTEGER column cannot hold is refused before the name is looked at.
InsertPartition(parts, p, fault) ==
  IF fault \/ p.MaxSize > MaxInteger THEN [err |-> ErrStore, partitions |-> parts]
  ELSE IF \E pt \in parts : pt.Name = p.Name
  THEN [err |-> ErrPartitionExists, partitions |-> parts]
  ELSE [err |-> "", partitions |-> parts \cup {p}]

\* strings.SplitN(v, "=", 2)
SplitN2(v) ==
  IF \A i \in 1..Len(v) : v[i] # "=" THEN <<v>>
  ELSE LET k == CHOOSE i \in 1..Len(v) : v[i] = "=" /\ \A j \in 1..(i-1) : v[j] # "="
       IN <<SubSeq(v, 1, k - 1), SubSeq(v, k + 1, Len(v))>>

KeyPrefix == <<"p", "r", "e", "f", "i", "x">>
KeyExact == <<"e", "x", "a", "c", "t">>
KeyMaxSize == <<"m", "a", "x", "-", "s", "i", "z", "e">>
KeyEnsure == <<"e", "n", "s", "u", "r", "e">>

\* One turn of the loop of CreatePartition over the rules: st.p is the
\* partition so far, st.bad says that the handler has answered
\* invalid_rule_set.
ApplyRule(st, rule) ==
  LET v == TrimSpace(rule)
      equalsSplit == SplitN2(v)
      bad == [st EXCEPT !.bad = TRUE]
  IN IF st.bad \/ v = <<>> THEN st
     ELSE IF Len(equalsSplit) # 2 THEN bad
     ELSE CASE equalsSplit[1] = KeyPrefix -> [st EXCEPT !.p.PathPrefix = equalsSplit[2]]
            [] equalsSplit[1] = KeyExact ->
                 [st EXCEPT !.p.PathPrefix = equalsSplit[2], !.p.Exact = TRUE]
            [] equalsSplit[1] = KeyMaxSize ->
                 IF parseSize(equalsSplit[2]).err # "" THEN bad
                 ELSE [st EXCEPT !.p.MaxSize = parseSize(equalsSplit[2]).size]
            [] equalsSplit[1] = KeyEnsure ->
                 IF ~Validate(equalsSplit[2]) THEN bad
                 ELSE [st EXCEPT !.p.Validates = equalsSplit[2]]
            [] OTHER -> bad

RECURSIVE ApplyRules(_, _)
\* The loop over strings.Split(req.RuleSet, ",").
ApplyRules(st, rulesetParts) ==
  IF rulesetParts = <<>> THEN st
  ELSE ApplyRules(ApplyRule(st, Head(rulesetParts)), Tail(rulesetParts))

\* A CreatePartition that keeps a max_size of 0.
DefaultMaxSize_Keeps(maxSize) == maxSize

\* "If max size is not set, set it to the default."
DefaultMaxSize(maxSize) == IF maxSize = 0 THEN halftb ELSE maxSize

\* apiServer.CreatePartition: the code answered ("ok" for nil) and the table
\* partitions after it.
CreatePartitionCall(parts, sudo, name, ruleSet, fault) ==
  LET zero == [Name |-> name, MaxSize |-> 0, PathPrefix |-> <<>>, Exact |-> FALSE,
               Validates |-> <<>>]
      st == ApplyRules([p |-> zero, bad |-> FALSE], Split(ruleSet, ","))
      p == [st.p EXCEPT !.MaxSize = DefaultMaxSize(@)]
      ins == InsertPartition(parts, p, fault)
  IN IF validateSudoKey(sudo) # "" THEN [code |-> validateSudoKey(sudo), partitions |-> parts]
     ELSE IF name = "" THEN [code |-> "invalid_partition", partitions |-> parts]
     ELSE IF st.bad \/ st.p.PathPrefix = <<>>
     THEN [code |-> "invalid_rule_set", partitions |-> parts]
     ELSE IF ins.err = ErrPartitionExists
     THEN [code |-> "partition_exists", partitions |-> ins.partitions]
     ELSE IF ins.err # "" THEN [code |-> "internal_server_error", partitions |-> ins.partitions]
     ELSE [code |-> "ok", partitions |-> ins.partitions]

\* The most rules in a rule set, and the largest number in a size.
MaxRules == 2
MaxNum == 4

UnitTexts == {<<>>, <<"b">>, <<"k", "b">>, <<"m", "b">>, <<"g", "b">>, <<"t", "b">>}

\* The number of KiB in one unit; a byte is 1/1024 KiB and sizes in bytes are
\* written in multiples of 1024.
UnitKiB(u) ==
  CASE u = <<"k", "b">> -> 1 [] u = <<"m", "b">> -> 1024 [] u = <<"g", "b">> -> 1024 * 1024
    [] u = <<"t", "b">> -> 1024 * 1024 * 1024 [] OTHER -> 1

\* The text of the size of n units u (n * 1024 bytes for the units "" and b).
SizeText(n, u) == FormatInt(IF u \in {<<>>, <<"b">>} THEN n * 1024 ELSE n) \o u

\* The sizes whose number of KiB the checker's integers hold.
SizeInputs == {nu \in (0..MaxNum) \X UnitTexts : nu[2] = <<"t", "b">> => nu[1] <= 1}

\* Size texts that are not a number and a unit.
OddSizes ==
  {<<>>, <<"g", "b">>, <<"5", "x", "b">>, <<"1", "x", "2", "k", "b">>, <<"-", "1">>,
   <<" ", "2", " ", "M", "B", " ">>}

Rule(key, value) == key \o <<"=">> \o value

Rules ==
  {Rule(KeyPrefix, <<"j">>), Rule(KeyExact, <<"j">>), Rule(KeyPrefix, <<>>),
   Rule(KeyMaxSize, SizeText(4, <<"g", "b">>)), Rule(KeyMaxSize, SizeText(1, <<"k", "b">>)),
   Rule(KeyMaxSize, SizeText(3, <<"g", "b">>)), Rule(KeyEnsure, WordPng),
   Rule(KeyEnsure, <<"g", "i", "f">>), <<"x">>}

RECURSIVE RuleSetsOf(_)
\* The rule sets of exactly n rules, joined by ",".
RuleSetsOf(n) ==
  IF n = 1 THEN Rules
  ELSE {rs \o <<",">> \o r : rs \in RuleSetsOf(n - 1), r \in Rules}

RuleSets == {<<>>} \cup UNION {RuleSetsOf(n) : n \in 1..MaxRules}

\* The partition the registry holds when the administrator's request comes.
AdminPartition ==
  [Name |-> "P", MaxSize |-> MaxSize, PathPrefix |-> <<"i">>, Exact |-> FALSE,
   Validates |-> WordPng]

\* uuid.NewRandom(): a key no row of keys has.
NewKey == "u1"

InitAdmin ==
  /\ partitions = {AdminPartition}
  /\ keys = {<<"k1", "P">>}
  /\ partitions_usage = [n \in {"P"} |-> 1]
  /\ partitions_files = {<<"P", FilePath(1)>>}
  /\ s3 = [p \in {FilePath(n) : n \in 1..MaxFiles} |-> 1]
  /\ reqs = [r \in Reqs |-> Idle]
  /\ ops = 0
  /\ calls = [c \in Callers |-> NoCall]
  /\ usage0 = partitions_usage
  /\ pure = NoPure
  /\ sweep = IdleSweep

\* A parseSize call.
CallParseSize(str, n, unit) ==
  /\ pure = NoPure
  /\ pure' = [fn |-> "parseSize", str |-> str, n |-> n, unit |-> unit,
              res |-> parseSize(str)]
  /\ UNCHANGED <<partitions, keys, partitions_usage, partitions_files, s3, reqs, ops,
                 calls, usage0, sweep>>

\* apiServer.CreateKey
CreateKey(sudo, names, fault) ==
  /\ pure = NoPure
  /\ LET ins == InsertKey(partitions, keys, NewKey, names, fault)
         code == IF validateSudoKey(sudo) # "" THEN validateSudoKey(sudo)
                 ELSE IF Len(names) = 0 THEN "partitions_empty"
                 ELSE IF ins.err # "" THEN "internal_server_error"
                 ELSE "ok"
     IN /\ keys' = IF validateSudoKey(sudo) = "" /\ Len(names) # 0 THEN ins.keys ELSE keys
        /\ pure' = [fn |-> "CreateKey", sudo |-> sudo, names |-> names, fault |-> fault,
                    code |-> code, key |-> IF code = "ok" THEN NewKey ELSE ""]
  /\ UNCHANGED <<partitions, partitions_usage, partitions_files, s3, reqs, ops, calls,
                 usage0, sweep>>

\* apiServer.DeleteKey
DeleteKey(sudo, key, fault) ==
  /\ pure = NoPure
  /\ LET del == DeleteKeyRows(keys, key, fault)
         code == IF validateSudoKey(sudo) # "" THEN validateSudoKey(sudo)
                 ELSE IF del.err # "" THEN "internal_server_error"
                 ELSE "ok"
     IN /\ keys' = IF validateSudoKey(sudo) = "" THEN del.keys ELSE keys
        /\ pure' = [fn |-> "DeleteKey", sudo |-> sudo, key |-> key, fault |-> fault,
                    code |-> code]
  /\ UNCHANGED <<partitions, partitions_usage, partitions_files, s3, reqs, ops, calls,
                 usage0, sweep>>

\* apiServer.CreatePartition
CreatePartition(sudo, name, ruleSet, fault) ==
  /\ pure = NoPure
  /\ LET c == CreatePartitionCall(partitions, sudo, name, ruleSet, fault)
     IN /\ partitions' = c.partitions
        /\ pure' = [fn |-> "CreatePartition", sudo |-> sudo, name |-> name,
                    ruleSet |-> ruleSet, fault |-> fault, code |-> c.code]
  /\ UNCHANGED <<keys, partitions_usage, partitions_files, s3, reqs, ops, calls,
                 usage0, sweep>>

NextAdmin ==
  \/ /\ pure = NoPure
     /\ \/ \E nu \in SizeInputs : CallParseSize(SizeText(nu[1], nu[2]), nu[1], nu[2])
        \/ \E str \in OddSizes : CallParseSize(str, 0, <<"?">>)
        \/ \E sudo \in {SudoKey, "kx"}, names \in {<<>>, <<"P">>, <<"Q">>, <<"P", "Q">>},
              fault \in BOOLEAN : CreateKey(sudo, names, fault)
        \/ \E sudo \in {SudoKey, "kx"}, key \in {"k1", "kx"}, fault \in BOOLEAN :
              DeleteKey(sudo, key, fault)
        \/ \E sudo \in {SudoKey, "kx"}, name \in {"", "P", "Q"}, ruleSet \in RuleSets,
              fault \in BOOLEAN : CreatePartition(sudo, name, ruleSet, fault)
  \/ NextSweep

SpecAdmin == InitAdmin /\ [][NextAdmin]_vars

\* --------------------------------------------------- Deletes of stored objects
\* Relative paths of two objects of the partition.
StoredRelPaths == {<<"a">>, <<"b">>}

\* The size of each of them, in KiB.
StoredSize == 1

\* The partition after two Uploads that succeeded: both objects are in the
\* blob store, both rows recorded and both sizes counted in the usage.
InitStored ==
  /\ partitions = {PrefixPartition}
  /\ keys = {<<"k1", "P">>}
  /\ partitions_usage = [n \in {"P"} |-> 2 * StoredSize]
  /\ partitions_files = {<<"P", ResolvePath(PrefixPartition, rp)>> : rp \in StoredRelPaths}
  /\ s3 = [p \in {ResolvePath(PrefixPartition, rp) : rp \in StoredRelPaths} |-> StoredSize]
  /\ reqs = [r \in Reqs |-> Idle]
  /\ ops = 0
  /\ calls = [c \in Callers |-> NoCall]
  /\ usage0 = partitions_usage
  /\ pure = NoPure
  /\ sweep = NoSweep

\* Delete requests served side by side, each by its own goroutine.
NextStored ==
  \/ \E r \in Reqs, key \in Keys, relPath \in StoredRelPaths,
        fKeys \in BOOLEAN, fHead \in BOOLEAN, missing \in HeadMissingCodes :
        DeleteHead(r, key, "P", relPath, fKeys, fHead, missing)
  \/ \E r \in Reqs, deleted \in BOOLEAN : DeleteBlob(r, deleted)
  \/ \E r \in Reqs, fault \in BOOLEAN : DeleteRecord(r, fault)
  \/ \E r \in Reqs, fault \in BOOLEAN : DeleteRelease(r, fault)

SpecStored == InitStored /\ [][NextStored]_vars

\* ------------------------------------------------ one request after another
\* The declared lengths of the Uploads: none, up to MaxLen KiB, and one of
\* 2^32 bytes and more.
RoundLens == (0..MaxLen) \cup {Pow32 + 1}

\* The object path of a file the partition holds before the requests.
OtherPath == ResolvePath(PrefixPartition, <<"b">>)

\* The tables of a partition that holds nothing, or one file of 1 KiB.
InitRound ==
  /\ partitions = {PrefixPartition}
  /\ keys = {<<"k1", "P">>}
  /\ \/ /\ partitions_usage = <<>>
        /\ partitions_files = {}
        /\ s3 = <<>>
     \/ /\ partitions_usage = [n \in {"P"} |-> 1]
        /\ partitions_files = {<<"P", OtherPath>>}
        /\ s3 = [p \in {OtherPath} |-> 1]
  /\ reqs = [r \in Reqs |-> Idle]
  /\ ops = 0
  /\ calls = [c \in Callers |-> NoCall]
  /\ usage0 = partitions_usage
  /\ pure = NoPure
  /\ sweep = NoSweep

\* No request is being served.
Quiet == \A q \in Reqs : reqs[q].pc \in {"idle", "done"}

\* Requests that come one after another: a request starts when no other is
\* being served.
NextRound ==
  \/ \E r \in Reqs, key \in Keys, name \in Names, relPath \in RelPaths, len \in RoundLens,
        fKeys \in BOOLEAN, fStore \in BOOLEAN :
        Quiet /\ UploadReserve(r, key, name, relPath, len, fKeys, fStore)
  \/ \E r \in Reqs, valid \in BOOLEAN, stored \in BOOLEAN : UploadStore(r, valid, stored)
  \/ \E r \in Reqs, fault \in BOOLEAN : UploadRecord(r, fault)
  \/ \E r \in Reqs, fault \in BOOLEAN : UploadDeferred(r, fault)
  \/ \E r \in Reqs, key \in Keys, name \in Names, relPath \in RelPaths,
        fKeys \in BOOLEAN, fHead \in BOOLEAN, missing \in HeadMissingCodes :
        Quiet /\ DeleteHead(r, key, name, relPath, fKeys, fHead, missing)
  \/ \E r \in Reqs, deleted \in BOOLEAN : DeleteBlob(r, deleted)
  \/ \E r \in Reqs, fault \in BOOLEAN : DeleteRecord(r, fault)
  \/ \E r \in Reqs, fault \in BOOLEAN : DeleteRelease(r, fault)

SpecRound == InitRound /\ [][NextRound]_vars

\* ===================================================================== claims
RECURSIVE SumSizes(_)
\* Total of the sizes passed by a set of callers.
SumSizes(S) ==
  IF S = {} THEN 0
  ELSE LET c == CHOOSE x \in S : TRUE IN calls[c].size + SumSizes(S \ {c})

Returned(fn) == {c \in Callers : calls[c].fn = fn /\ calls[c].pc = "returned"}

Succeeded(fn) == {c \in Returned(fn) : calls[c].err = ""}

\* C2: for concurrent WriteToPartitionUsagePool calls on one partition (no
\* release among them), in every interleaving the sizes of the calls that
\* returned success sum to at most max_size (even together with the usage
\* recorded at the start), and once every call has returned the recorded
\* usage is exactly the usage at the start plus that sum.
ThmC2 ==
  (\A c \in Callers : calls[c].fn # "rollback") =>
    /\ SumSizes(Succeeded("write")) <= MaxSize
    /\ UsageOf(usage0, "P") + SumSizes(Succeeded("write")) <= MaxSize
    /\ (\A c \in Callers : calls[c].pc # "called") =>
          UsageOf(partitions_usage, "P")
            = UsageOf(usage0, "P") + SumSizes(Succeeded("write"))

\* Three concurrent reservations have returned: two were admitted, the third
\* was refused.
WitC2 ==
  /\ Returned("write") = Callers
  /\ Cardinality(Succeeded("write")) = 2
  /\ \E c \in Callers : calls[c].err = ErrFileTooLarge /\ calls[c].size > 0

CexC10 ==
  \A c \in Returned("rollback") :
    ~calls[c].fault =>
      /\ UsageOf(calls[c].post, "P") >= 0
      /\ calls[c].size > UsageOf(calls[c].pre, "P") => UsageOf(calls[c].post, "P") = 0

\* C10 as amended: RollbackPartitionUsagePool never makes usage negative; a
\* size larger than the recorded usage leaves partitions_usage unchanged, any
\* other size is subtracted exactly.
ThmC10 ==
  \A c \in Returned("rollback") :
    /\ UsageOf(calls[c].post, "P") >= 0
    /\ calls[c].size > UsageOf(calls[c].pre, "P") => calls[c].post = calls[c].pre
    /\ (~calls[c].fault /\ "P" \in DOMAIN calls[c].pre
          /\ calls[c].size <= UsageOf(calls[c].pre, "P")) =>
         calls[c].post = ("P" :> (calls[c].pre["P"] - calls[c].size))

\* A release larger than a non-zero recorded usage has run, and so has one
\* that fitted.
WitC10 ==
  \E c, d \in Returned("rollback") :
    /\ ~calls[c].fault /\ UsageOf(calls[c].pre, "P") > 0
    /\ calls[c].size > UsageOf(calls[c].pre, "P")
    /\ ~calls[d].fault /\ calls[d].size > 0
    /\ calls[d].size <= UsageOf(calls[d].pre, "P")

\* ------------------------------------------------- claims on Upload and Delete
Range(f) == {f[i] : i \in DOMAIN f}

Steps(rec) == {e[1] : e \in Range(rec.log)}

Done(op) == {r \in Reqs : reqs[r].op = op /\ reqs[r].pc = "done"}

RECURSIVE BlobTotal(_, _)
\* Total size of the objects of the bucket with their key in K.
BlobTotal(objects, K) ==
  IF K = {} THEN 0
  ELSE LET k == CHOOSE x \in K : TRUE IN objects[k] + BlobTotal(objects, K \ {k})

\* C1: in every reachable state the recorded usage of the partition is at
\* least the total size of the objects that uploads to the partition have put
\* in the bucket (every object of the bucket is one of them).
CexC1 == UsageOf(partitions_usage, "P") >= BlobTotal(s3, DOMAIN s3)

\* C3: every partitions_usage row holds a size between 0 and the max_size of
\* its partition, whatever reservations, compensations and delete-time
\* releases have run.
ThmC3 ==
  \A n \in DOMAIN partitions_usage :
    \E pt \in partitions :
      pt.Name = n /\ 0 <= partitions_usage[n] /\ partitions_usage[n] <= pt.MaxSize

\* A Delete has released its object's size, an Upload has compensated its
\* reservation, and the usage row is there.
WitC3 ==
  /\ "P" \in DOMAIN partitions_usage
  /\ \E r \in Done("Delete") : <<"release", TRUE>> \in Range(reqs[r].log) /\ reqs[r].delta < 0
  /\ \E r \in Done("Upload") : <<"release", TRUE>> \in Range(reqs[r].log) /\ reqs[r].delta = 0

\* C5: when Upload returns success the partitions_files row of the resolved
\* path is there and the usage of the partition was raised, by this request,
\* by exactly the declared content length.
CexC5 ==
  \A r \in Done("Upload") :
    reqs[r].code = "ok" =>
      /\ reqs[r].row
      /\ reqs[r].delta = reqs[r].ContentLength

\* C6: when Upload returns after failing at the reservation, the body read,
\* the validation or the blob-store write, this request has left the usage of
\* the partition where it found it, has created no partitions_files row and
\* has run the compensating release at most once (the release call is taken
\* not to fail itself: it is best-effort).
CexC6 ==
  \A r \in Done("Upload") :
    (/\ reqs[r].code # "ok"
     /\ "reserve" \in Steps(reqs[r])
     /\ "record" \notin Steps(reqs[r])
     /\ <<"release", FALSE>> \notin Range(reqs[r].log)) =>
      /\ reqs[r].delta = 0
      /\ Cardinality({i \in DOMAIN reqs[r].log : reqs[r].log[i][1] = "release"}) <= 1

\* C7: when the blob was written and WritePartitionFile then fails, Upload
\* returns an internal error without releasing the reservation: the usage
\* still holds the reserved size.
CexC7 ==
  \A r \in Done("Upload") :
    <<"record", FALSE>> \in Range(reqs[r].log) =>
      /\ reqs[r].code = "internal_server_error"
      /\ "release" \notin Steps(reqs[r])
      /\ reqs[r].delta = ToUint32(reqs[r].ContentLength)

\* C8: in every Upload, a validation, a blob-store write or a
\* partitions_files insert comes only after a successful reservation, and an
\* Upload answered too_large has made none of them.
ThmC8 ==
  \A r \in Reqs :
    LET log == reqs[r].log
    IN reqs[r].op = "Upload" =>
         /\ \A i \in DOMAIN log :
              log[i][1] \in {"validate", "put", "record"} =>
                \E j \in 1..(i-1) : log[j] = <<"reserve", TRUE>>
         /\ reqs[r].code = "too_large" =>
              /\ log = << <<"reserve", FALSE>> >>
              /\ reqs[r].delta = 0

\* One Upload was refused for quota while another went through validation,
\* blob-store write and record.
WitC8 ==
  \E r, q \in Done("Upload") :
    /\ reqs[r].code = "too_large"
    /\ reqs[q].code = "ok"
    /\ {"validate", "put", "record"} \subseteq Steps(reqs[q])

\* C9: when Delete returns success it has deleted the partitions_files row of
\* the resolved path and lowered the usage of the partition by exactly the
\* size HEAD returned.
CexC9 ==
  \A r \in Done("Delete") :
    reqs[r].code = "ok" =>
      /\ <<"unrecord", TRUE>> \in Range(reqs[r].log)
      /\ reqs[r].delta = 0 - reqs[r].head

\* The error code Upload answers for the step of its log that failed.
FailedStepCode(log) ==
  IF <<"validate", FALSE>> \in Range(log) THEN "validation_failed"
  ELSE "internal_server_error"

\* C11: a failing RollbackPartitionUsagePool call never changes what the
\* client is told: an Upload whose release failed still answers the error of
\* the step that failed before it, and a Delete whose release failed (the blob
\* and the partitions_files row being deleted by then) answers success.
CexC11 ==
  \A r \in Reqs :
    (reqs[r].pc = "done" /\ <<"release", FALSE>> \in Range(reqs[r].log)) =>
      /\ reqs[r].op = "Upload" => reqs[r].code = FailedStepCode(reqs[r].log)
      /\ reqs[r].op = "Delete" =>
           /\ <<"s3delete", TRUE>> \in Range(reqs[r].log)
           /\ <<"unrecord", TRUE>> \in Range(reqs[r].log)
           /\ reqs[r].code = "ok"

\* ------------------------------------------------- claims on path resolution
\* s without one slash at its end / at its start.
TrimSuffixSlash(s) == IF HasSuffixSlash(s) THEN SubSeq(s, 1, Len(s) - 1) ELSE s

TrimPrefixSlash(s) == IF HasPrefixSlash(s) THEN Tail(s) ELSE s

\* path starts with the characters of pre.
StartsWith(path, pre) == Len(path) >= Len(pre) /\ SubSeq(path, 1, Len(pre)) = pre

\* path names the prefix directory itself or something below it.
UnderPrefix(path, prefix) ==
  LET dir == TrimSuffixSlash(prefix)
  IN /\ path = dir \/ StartsWith(path, dir \o <<SLASH>>)
     /\ <<".", ".">> \notin Range(SplitSlash(path))

\* C12: for a partition in prefix mode, the object path Upload and Delete
\* resolve from any relative path (with "..", a leading or a trailing slash)
\* lies under the path prefix of the partition.
CexC12 ==
  (pure.fn = "path" /\ pure.pc = "returned" /\ pure.by = "handler"
     /\ ~pure.partition.Exact) =>
    UnderPrefix(pure.p, pure.partition.PathPrefix)

\* The object path the specification gives for a partition and a relative
\* path: the fixed path in exact mode, the bare prefix for an empty relative
\* path, otherwise prefix and relative path with exactly one slash between.
ExpectedPath(partition, relPath) ==
  IF partition.Exact \/ relPath = <<>> THEN partition.PathPrefix
  ELSE TrimSuffixSlash(partition.PathPrefix) \o <<SLASH>> \o TrimPrefixSlash(relPath)

\* C13: path resolution, by Partition.Join and by the handlers, gives for
\* every partition and relative path the fixed path in exact mode, the bare
\* prefix for an empty relative path, and otherwise the prefix and the
\* relative path separated by exactly one slash.
CexC13 ==
  (pure.fn = "path" /\ pure.pc = "returned") =>
    pure.p = ExpectedPath(pure.partition, pure.relPath)

\* ------------------------------------------------------ claims on validations
\* The positions of the "+" of a policy, and the i-th of them (0 before the
\* first, one past the end after the last).
PlusAt(s) == {i \in 1..Len(s) : s[i] = "+"}

NthPlus(s, n) ==
  IF n = 0 THEN 0
  ELSE IF n > Cardinality(PlusAt(s)) THEN Len(s) + 1
  ELSE CHOOSE p \in PlusAt(s) : Cardinality({q \in PlusAt(s) : q < p}) = n - 1

\* The "+"-delimited tokens of a policy: how many, and the i-th.
NTokens(s) == Cardinality(PlusAt(s)) + 1

Token(s, i) == SubSeq(s, NthPlus(s, i - 1) + 1, NthPlus(s, i) - 1)

\* The <<token index, validator index>> pairs where the validator matches the
\* token, those of them whose validator refuses the buffer, and their order:
\* token order, then registration order.
MatchingPairs(s) ==
  {pr \in (1..NTokens(s)) \X (DOMAIN Validators) :
     Matches(Validators[pr[2]], Token(s, pr[1]))}

FailingPairs(b, s) ==
  {pr \in MatchingPairs(s) : ValidatorValidate(Validators[pr[2]], b, Token(s, pr[1])) # ""}

ComesBefore(p, q) == p[1] < q[1] \/ (p[1] = q[1] /\ p[2] < q[2])

\* C14: Execute on bytes and a policy succeeds iff every registered validator
\* that matches a token of the policy accepts the buffer; on success the
\* reader returned holds exactly the bytes given and every matching validator
\* was invoked; otherwise the error is that of the first failing validator in
\* token order then registration order, and no validator was invoked after it.
ThmC14 ==
  (pure.fn = "validations" /\ pure.pc = "returned" /\ pure.by = "Execute"
     /\ ~pure.readErr) =>
    LET s == pure.validations
        fails == FailingPairs(pure.b, s)
    IN /\ pure.err = "" <=> fails = {}
       /\ pure.err = "" =>
            /\ pure.r = pure.b
            /\ Range(pure.invoked) = MatchingPairs(s)
       /\ pure.err # "" =>
            \E f \in fails :
              /\ \A g \in fails : g = f \/ ComesBefore(f, g)
              /\ pure.err = ValidatorValidate(Validators[f[2]], pure.b, Token(s, f[1]))
              /\ pure.invoked[Len(pure.invoked)] = f
              /\ Range(pure.invoked) = {pr \in MatchingPairs(s) : pr = f \/ ComesBefore(pr, f)}
       /\ \A i, j \in DOMAIN pure.invoked : i < j => ComesBefore(pure.invoked[i], pure.invoked[j])

\* Execute has returned on the policy "jpeg+16:9" and a JPEG of 4 by 3, which
\* passes the first token and fails the second.
WitC14 ==
  /\ pure.fn = "validations" /\ pure.pc = "returned" /\ pure.by = "Execute"
  /\ pure.validations = WordJpeg \o <<"+", "1", "6", ":", "9">>
  /\ pure.b = <<MagicJpeg, 4, 3>>
  /\ pure.err = "The image specified does not match the aspect ratio"
  /\ Len(pure.invoked) = 2

\* C15: Validate returns true iff every "+"-delimited token of the policy,
\* the empty token of an empty policy or of a leading, trailing or doubled
\* "+" included, is matched by at least one registered validator.
ThmC15 ==
  (pure.fn = "validations" /\ pure.pc = "returned" /\ pure.by = "Validate") =>
    (pure.ok <=>
       \A i \in 1..NTokens(pure.validations) :
         \E j \in DOMAIN Validators : Matches(Validators[j], Token(pure.validations, i)))

\* Validate has refused a policy whose only unmatched token is the empty one
\* after a trailing "+".
WitC15 ==
  /\ pure.fn = "validations" /\ pure.pc = "returned" /\ pure.by = "Validate"
  /\ pure.validations = WordJpeg \o <<"+">>
  /\ ~pure.ok

\* C16: calculateAspectRatio(w, h) for non-negative w and h is "0:0" when w
\* or h is 0; otherwise it is "a:b" with a = w/g, b = h/g, g the greatest
\* common divisor, so a and b have no common divisor and the result is the
\* same for (k*w, k*h), k > 0.
ThmC16 ==
  (pure.fn = "ratio" /\ pure.pc = "returned") =>
    LET w == pure.width
        h == pure.height
        Common == {d \in 1..w : w % d = 0 /\ h % d = 0}
    IN /\ (w = 0 \/ h = 0) => pure.ratio = <<"0", ":", "0">>
       /\ (w > 0 /\ h > 0) =>
            \E g \in Common :
              /\ \A d \in Common : d <= g
              /\ pure.ratio = FormatInt(w \div g) \o <<":">> \o FormatInt(h \div g)
              /\ \A d \in 2..(w \div g) : ~((w \div g) % d = 0 /\ (h \div g) % d = 0)
       /\ pure.scaled = pure.ratio

\* calculateAspectRatio has reduced 18 by 12, and 54 by 36, to "3:2".
WitC16 ==
  /\ pure.fn = "ratio" /\ pure.pc = "returned"
  /\ pure.width = 18 /\ pure.height = 12 /\ pure.k = 3
  /\ pure.ratio = <<"3", ":", "2">>
  /\ pure.scaled = <<"3", ":", "2">>

\* ------------------------------------------------- claims on DeletePartition
\* The paths whose blob-store delete was dispatched, and the goroutines still
\* running.
Dispatched == {sweep.jobs[i].path : i \in DOMAIN sweep.jobs}

InFlight == {i \in DOMAIN sweep.jobs : sweep.jobs[i].st = "running"}

\* C17: DeletePartition (called with the superuser secret) on a name that
\* does not exist answers that the partition does not exist and has no side
\* effects: no blob-store delete is dispatched and no metadata row changes.
CexC17 ==
  (sweep.pc # "idle" /\ ~sweep.existed /\ sweep.code # "invalid_key") =>
    /\ sweep.pc = "done" /\ sweep.code = "invalid_partition"
    /\ sweep.jobs = <<>>
    /\ partitions_usage = usage0
    /\ s3 = [p \in {FilePath(n) : n \in 1..MaxFiles} |-> 1]

\* C18: DeletePartition always returns, whatever the outcomes of the
\* blob-store deletes; and on an existing partition whose listing succeeds it
\* answers success, having dispatched a blob-store delete for every file path
\* recorded for the partition.
ThmC18 ==
  /\ [](/\ sweep.pc = "done" /\ sweep.existed
        /\ sweep.code # "invalid_key" /\ sweep.e2 = ""
        => /\ sweep.code = "ok"
           /\ Range(sweep.listed) \subseteq Dispatched)
  /\ (sweep.pc # "idle") ~> (sweep.pc = "done")

\* DeletePartition has answered success on an existing partition with
\* MaxFiles recorded files, after a delete that failed and one that succeeded.
WitC18 ==
  /\ sweep.pc = "done" /\ sweep.code = "ok" /\ sweep.existed
  /\ Len(sweep.listed) = MaxFiles
  /\ \E i, j \in DOMAIN sweep.jobs :
       /\ sweep.jobs[i].st = "ended" /\ sweep.jobs[i].ok
       /\ sweep.jobs[j].st = "ended" /\ ~sweep.jobs[j].ok

\* C19: when DeletePartition has returned, with success or with the error of
\* a listing, none of the blob-store deletes it dispatched is still in flight.
CexC19 == sweep.pc = "done" => InFlight = {}

\* C20: once DeletePartition has answered success and its deletes have ended
\* (nothing else runs after that), no partitions_files row with the name of
\* the partition remains.
CexC20 ==
  (sweep.pc = "done" /\ sweep.code = "ok" /\ InFlight = {}) =>
    \A row \in partitions_files : row[1] # sweep.name

\* ------------------------------------------ claims on the checks of a request
\* The tables and the bucket.
stores == <<partitions, keys, partitions_usage, partitions_files, s3>>

\* C21: an Upload (of a key mapped to the partition) whose content length is
\* not known (-1) is answered invalid_headers without a reservation, a
\* validation, a blob-store call or a partitions_files insert, and the step
\* that answers it changes no table and no object; no other Upload is
\* answered invalid_headers.
ThmC21 ==
  /\ [](\A r \in Reqs :
          reqs[r].op = "Upload" =>
            /\ reqs[r].ContentLength = -1 =>
                 /\ reqs[r].pc = "done" /\ reqs[r].code = "invalid_headers"
                 /\ reqs[r].log = <<>> /\ reqs[r].delta = 0
            /\ reqs[r].code = "invalid_headers" => reqs[r].ContentLength = -1)
  /\ [][\A r \in Reqs :
          (reqs[r].pc = "idle" /\ reqs'[r].op = "Upload" /\ reqs'[r].ContentLength = -1)
            => UNCHANGED stores]_vars

\* An Upload without a known content length was refused while the partition
\* holds a stored, recorded and accounted object.
WitC21 ==
  /\ \E r \in Done("Upload") : reqs[r].code = "invalid_headers"
                                 /\ reqs[r].partition.Name = "P"
  /\ UsageOf(partitions_usage, "P") > 0
  /\ s3 # <<>> /\ partitions_files # {}

\* The objects of the bucket under the path prefix of a partition.
ObjectsUnder(objects, prefix) ==
  [k \in {x \in DOMAIN objects : UnderPrefix(x, prefix)} |-> objects[k]]

\* This step changes the usage, the file records or the blobs of partition n.
Touches(n) ==
  \/ n \in DOMAIN partitions_usage' /\ n \notin DOMAIN partitions_usage
  \/ UsageOf(partitions_usage', n) # UsageOf(partitions_usage, n)
  \/ {row \in partitions_files' : row[1] = n} # {row \in partitions_files : row[1] = n}
  \/ \E pt \in partitions :
       /\ pt.Name = n
       /\ ObjectsUnder(s3', pt.PathPrefix) # ObjectsUnder(s3, pt.PathPrefix)

\* C22: a step of an Upload or a Delete changes the usage, the file records
\* or the blobs of a partition only when the key of the request is mapped to
\* that partition; a key mapped to no partition is answered invalid_key, a key
\* not mapped to the partition asked for is answered invalid_partition, both
\* without a store or blob-store call.
CexC22 ==
  /\ [](\A r \in Reqs :
          reqs[r].op # "none" =>
            /\ GetPartitionsByKey(partitions, keys, reqs[r].key) = {} =>
                 reqs[r].code = "invalid_key"
            /\ (GetPartitionsByKey(partitions, keys, reqs[r].key) # {}
                  /\ <<reqs[r].key, reqs[r].name>> \notin keys) =>
                 reqs[r].code = "invalid_partition"
            /\ reqs[r].code \in {"invalid_key", "invalid_partition"} =>
                 reqs[r].log = <<>> /\ reqs[r].delta = 0)
  /\ [][\A r \in Reqs, n \in Names :
          (reqs'[r] # reqs[r] /\ Touches(n)) => <<reqs'[r].key, n>> \in keys]_vars

\* C23: CreateKey, DeleteKey, CreatePartition and DeletePartition called with
\* a sudo key that is not the superuser secret answer invalid_key, and the
\* call leaves keys, partitions, usage, file records and blobs as they were.
ThmC23 ==
  [][/\ (pure # pure' /\ pure'.fn \in {"CreateKey", "DeleteKey", "CreatePartition"}
           /\ pure'.sudo # SudoKey)
          => (pure'.code = "invalid_key" /\ UNCHANGED stores)
     /\ (sweep.pc = "idle" /\ sweep'.pc # "idle" /\ sweep'.key # SudoKey)
          => (sweep'.pc = "done" /\ sweep'.code = "invalid_key" /\ UNCHANGED stores)]_vars

\* A CreatePartition with a rule set that would be accepted and a
\* DeletePartition of an existing partition have both been refused for their
\* sudo key.
WitC23 ==
  /\ pure.fn = "CreatePartition" /\ pure.sudo # SudoKey /\ pure.name = "Q"
  /\ pure.ruleSet = Rule(KeyPrefix, <<"j">>) /\ ~pure.fault
  /\ sweep.pc = "done" /\ sweep.key # SudoKey /\ sweep.existed
  /\ partitions = {AdminPartition}

\* C24: every partition in the registry, whatever rule set CreatePartition
\* was given, is the only one of its name, has a non-empty path prefix and a
\* max_size above 0, and its validation policy is empty or passes
\* validations.Validate.
ThmC24 ==
  \A p \in partitions :
    /\ \A q \in partitions : q.Name = p.Name => q = p
    /\ p.PathPrefix # <<>>
    /\ p.MaxSize > 0
    /\ (p.Validates = <<>> \/ Validate(p.Validates))

\* CreatePartition has persisted a partition whose max-size rule parsed to 0.
WitC24 ==
  /\ pure.fn = "CreatePartition" /\ pure.code = "ok" /\ pure.name = "Q"
  /\ pure.ruleSet = Rule(KeyPrefix, <<"j">>) \o <<",">>
                      \o Rule(KeyMaxSize, SizeText(4, <<"g", "b">>))
  /\ \E p \in partitions : p.Name = "Q" /\ p.MaxSize = halftb /\ p.PathPrefix = <<"j">>

\* C25: a CreatePartition whose name is already in the registry leaves the
\* partition of that name (max_size, prefix, exact flag, policy), the usage
\* and the key mappings as they were, and a request that a registry without
\* the name would accept is answered partition_exists.
ThmC25 ==
  [][(/\ pure # pure' /\ pure'.fn = "CreatePartition"
      /\ \E pt \in partitions : pt.Name = pure'.name)
       => /\ partitions' = partitions
          /\ partitions_usage' = partitions_usage
          /\ keys' = keys
          /\ CreatePartitionCall({}, pure'.sudo, pure'.name, pure'.ruleSet,
                                 pure'.fault).code = "ok"
               => pure'.code = "partition_exists"]_vars

\* A request for the name P with another definition than the one P has was
\* answered partition_exists.
WitC25 ==
  /\ pure.fn = "CreatePartition" /\ pure.name = "P" /\ pure.code = "partition_exists"
  /\ pure.ruleSet = Rule(KeyExact, <<"j">>) \o <<",">>
                      \o Rule(KeyMaxSize, SizeText(1, <<"k", "b">>))
  /\ partitions = {AdminPartition}
  /\ partitions_usage["P"] = 1 /\ <<"k1", "P">> \in keys

\* The number of blob-store deletes the call has dispatched for path.
TimesDispatched(path) == Cardinality({i \in DOMAIN sweep.jobs : sweep.jobs[i].path = path})

\* C26: during one DeletePartition call no recorded file path is dispatched
\* for blob-store deletion more than once, and when the call answers success
\* each recorded path has been dispatched exactly once.
CexC26 ==
  \A path \in Range(sweep.listed) :
    /\ TimesDispatched(path) <= 1
    /\ (sweep.pc = "done" /\ sweep.code = "ok") => TimesDispatched(path) = 1

\* C27: when db.DeletePartition has failed with an error other than "does
\* not exist", DeletePartition answers internal_server_error at once: it
\* lists no files, dispatches no blob-store delete and does not answer
\* success.
CexC27 ==
  sweep.dberr = ErrStore =>
    /\ sweep.pc = "done" /\ sweep.code = "internal_server_error"
    /\ sweep.pass = 0 /\ sweep.jobs = <<>>

\* C28: for every declared Content-Length L >= 0, also from 2^32 bytes on,
\* an Upload that has reserved holds a reservation of exactly L, which is
\* also the cap on the body it reads and stores, so that the bytes stored
\* never exceed the amount reserved; and a compensation that releases,
\* releases exactly L.
CexC28 ==
  /\ [](\A r \in Reqs :
          (reqs[r].op = "Upload" /\ reqs[r].pc \in {"reserved", "written"}) =>
            /\ reqs[r].delta = reqs[r].ContentLength
            /\ reqs[r].pc = "written" => reqs[r].ContentLength <= reqs[r].delta)
  /\ [][\A r \in Reqs :
          (reqs[r].op = "Upload" /\ reqs[r].pc = "defer" /\ reqs'[r].pc = "done") =>
            reqs'[r].delta - reqs[r].delta \in {0, 0 - reqs[r].ContentLength}]_vars

\* C29: parseSize returns the number of bytes its input denotes: for every
\* number N and unit u of "", b, kb, mb, gb, tb a call parseSize(N u) succeeds
\* with N * 1024^k (k = 0, 0, 1, 2, 3, 4); and the max_size CreatePartition
\* persists for a max-size rule is the size that was written (for as long as
\* the partition is in the registry).
CexC29 ==
  /\ (pure.fn = "parseSize" /\ pure.unit \in UnitTexts) =>
       /\ pure.res.err = ""
       /\ pure.res.size = pure.n * UnitKiB(pure.unit)
  /\ \A n \in 0..MaxNum, u \in UnitTexts :
       (/\ pure.fn = "CreatePartition" /\ pure.code = "ok"
        /\ pure.ruleSet = Rule(KeyPrefix, <<"j">>) \o <<",">>
                            \o Rule(KeyMaxSize, SizeText(n, u))
        /\ n > 0)
         => \A p \in partitions : p.Name = pure.name => p.MaxSize = n * UnitKiB(u)

\* C30: Delete issues no compensation. Its blob-store delete, when it
\* succeeds, removes the blob; when the delete of the partitions_files row
\* then fails, Delete answers internal_server_error and that step leaves the
\* blob store, the rows and the usage as they are (the blob is not put back,
\* the row stays, nothing is released); when the blob-store delete fails,
\* Delete answers internal_server_error after that one attempt, with blob,
\* rows and usage as they are.
ThmC30 ==
  [][\A r \in Reqs :
       reqs[r].op = "Delete" =>
         /\ (reqs[r].pc = "headed" /\ reqs'[r].pc = "deleted") =>
              reqs[r].p \notin DOMAIN s3'
         /\ (reqs[r].pc = "deleted" /\ reqs'[r].pc = "done") =>
              /\ reqs'[r].code = "internal_server_error"
              /\ reqs'[r].log = <<<<"head", TRUE>>, <<"s3delete", TRUE>>,
                                  <<"unrecord", FALSE>>>>
              /\ reqs'[r].delta = 0
              /\ UNCHANGED <<s3, partitions_files, partitions_usage>>
         /\ (reqs[r].pc = "headed" /\ reqs'[r].pc = "done") =>
              /\ reqs'[r].code = "internal_server_error"
              /\ reqs'[r].log = <<<<"head", TRUE>>, <<"s3delete", FALSE>>>>
              /\ reqs'[r].delta = 0
              /\ UNCHANGED <<s3, partitions_files, partitions_usage>>]_vars

\* A Delete of an uploaded file has returned after its row delete failed: the
\* blob is gone, the row is there and the usage still counts the file.
WitC30 ==
  \E r \in Done("Delete") :
    /\ reqs[r].code = "internal_server_error"
    /\ <<"unrecord", FALSE>> \in Range(reqs[r].log)
    /\ reqs[r].p \notin DOMAIN s3
    /\ <<reqs[r].partition.Name, reqs[r].p>> \in partitions_files
    /\ UsageOf(partitions_usage, reqs[r].partition.Name) = 1

\* C31: a Delete whose HEAD finds no object at the resolved path answers
\* invalid_path, and the HEAD is all it has done: no blob-store delete, no
\* partitions_files delete, no release of usage.
CexC31 ==
  \A r \in Done("Delete") :
    reqs[r].missing =>
      /\ reqs[r].code = "invalid_path"
      /\ reqs[r].log = <<<<"head", FALSE>>>>
      /\ reqs[r].delta = 0

\* C32: when two Delete requests for the same stored object (same partition
\* and path) run side by side, the usage of the partition is lowered, by the
\* two of them together, by no more than the size of the object.
CexC32 ==
  \A r, q \in Reqs :
    (/\ r # q
     /\ reqs[r].op = "Delete" /\ reqs[q].op = "Delete"
     /\ reqs[r].partition = reqs[q].partition /\ reqs[r].p = reqs[q].p)
      => (0 - reqs[r].delta) + (0 - reqs[q].delta) <= StoredSize

\* The rows of partitions_files before the requests of SpecRound.
FilesBefore == IF UsageOf(usage0, "P") = 0 THEN {} ELSE {<<"P", OtherPath>>}

\* C33: after an Upload that succeeded and a Delete of the same partition and
\* path that succeeded, with no other request between them, the usage of the
\* partition and its partitions_files rows are what they were before the
\* Upload, whatever the declared length.
ThmC33 ==
  \A u, d \in Reqs :
    (/\ reqs[u].op = "Upload" /\ reqs[u].pc = "done" /\ reqs[u].code = "ok"
     /\ reqs[d].op = "Delete" /\ reqs[d].pc = "done" /\ reqs[d].code = "ok"
     /\ reqs[u].partition = reqs[d].partition /\ reqs[u].p = reqs[d].p)
      => /\ UsageOf(partitions_usage, "P") = UsageOf(usage0, "P")
         /\ partitions_files = FilesBefore

\* The round trip of a file of 2^32 bytes and more in a partition that holds
\* another file.
WitC33 ==
  \E u, d \in Reqs :
    /\ reqs[u].op = "Upload" /\ reqs[u].pc = "done" /\ reqs[u].code = "ok"
    /\ reqs[u].ContentLength = Pow32 + 1
    /\ reqs[d].op = "Delete" /\ reqs[d].pc = "done" /\ reqs[d].code = "ok"
    /\ reqs[d].p = reqs[u].p /\ reqs[d].head = Pow32 + 1
    /\ UsageOf(usage0, "P") = 1

\* C34: an Upload that returns an error has not written the blob store: the
\* object at the resolved path, if there was one, is the one that was there,
\* also when the path had a partitions_files row and the insert of the row
\* failed.
CexC34 ==
  \A r \in Done("Upload") :
    reqs[r].code # "ok" => <<"put", TRUE>> \notin Range(reqs[r].log)

\* C35: the inline resolution of Upload and Delete (path.Join of prefix and
\* relative path) and Partition.Join return the same object path for every
\* partition, in exact and in prefix mode, and every relative path.
CexC35 ==
  (pure.fn = "path" /\ pure.pc = "returned") =>
    pure.p = IF pure.by = "handler" THEN Join(pure.partition, pure.relPath)
             ELSE ResolvePath(pure.partition, pure.relPath)

====
